---- MODULE Spec2Model ----
(***************************************************************************)
(* The submission relay pipeline of OSC-Artifact-Submission:               *)
(*   artifact.created.queue -> Submission Worker -> Peer Client -> peer    *)
(*   -> artifact.submitted.queue -> Submission Listener -> API gateway.    *)
(* Each consumer callback is one action: prefetch_count=1 and a blocking   *)
(* consumer loop mean a callback runs to its end before the next delivery. *)
(* A callback's run is recorded as the sequence of the external calls it   *)
(* made (its effects), in program order.                                   *)
(***************************************************************************)
EXTENDS Naturals, Sequences, FiniteSets

\* ------------------------------------------------------------------ bounds
\* How many times the environment acts on the pipeline in one behaviour: a
\* creation message produced, a foreign body put on the submitted queue, a
\* consumer process terminated from outside.
MaxExternal == 2

\* How many messages wait in a queue when competing consumers start on it.
MaxBacklog == 3

\* -------------------------------------------------------------------- data
ArtifactIds == {"a1", "a2"}

\* A key that a dict does not hold (dict.get gives None, `in` gives False).
Absent == "<absent>"

\* Python truthiness of an optional string: None and "" are falsy.
Truthy(v) == v # Absent /\ v # ""

\* datetime.now(timezone.utc).isoformat()
Now == "now"

PEER_ID == "12D3KooWBhxQ7uXeY9zF8qG5nM4rL3pT6vN8wS2cK9jH1fX7yR4e"

\* The error texts of the Peer Client and of the Worker, by their fixed prefix.
ErrTimeout == "Timeout communicating with peer"
ErrConnection == "Connection error communicating with peer"
\* f"HTTP error {e.response.status_code} from peer: ..."
ErrHttp(status) ==
    CASE status = 400 -> "HTTP error 400 from peer"
      [] status = 404 -> "HTTP error 404 from peer"
      [] status = 500 -> "HTTP error 500 from peer"
      [] status = 503 -> "HTTP error 503 from peer"
      [] OTHER -> "HTTP error from peer"
ErrInvalid == "Invalid response from peer"
ErrUnexpected == "Unexpected error communicating with peer"
ErrProcessing == "Submission processing failed"

\* str(e) of the exceptions the model raises: what a raising peer step says
\* and what a raising basic_publish says.
ExcTexts == {"fail", "boom"}
PublishExc == "Channel is closed"

\* f"Submission processing failed: {str(e)}"
ProcessingFailed(text) ==
    CASE text = "fail" -> "Submission processing failed: fail"
      [] text = "boom" -> "Submission processing failed: boom"
      [] text = PublishExc -> "Submission processing failed: Channel is closed"
      [] OTHER -> ErrProcessing
ErrGas == "Insufficient gas fees"

\* ------------------------------------------------- message bodies (bytes)
\* kind: "notutf8"   bytes that body.decode() cannot decode
\*       "badjson"   decodable text that json.loads rejects
\*       "nonobject" valid JSON that is not an object (a list, a number)
\*       "object"    a JSON object with the fields below (Absent = no key)
CreatedBody(kind, aid) == [kind |-> kind, artifactId |-> aid]

CreatedBodies ==
    {CreatedBody(k, Absent) : k \in {"notutf8", "badjson", "nonobject"}}
    \cup {CreatedBody("object", a) : a \in ArtifactIds \cup {Absent, ""}}

SubmittedBody(kind, aid, state, at, ver, tx, peer, err) ==
    [kind |-> kind, artifactId |-> aid, submissionState |-> state,
     submittedAt |-> at, version |-> ver, blockchainTxId |-> tx,
     peerId |-> peer, error |-> err]

NoEvent ==
    SubmittedBody("none", Absent, Absent, Absent, Absent, Absent, Absent, Absent)

\* -------------------------------------------------------- a callback's run
\* One external call of a callback. ok: the call returned (did not raise);
\* success: the success flag of the outcome a peer call returned;
\* key: the artifactId the call is about; event: the body a publish carries.
Effect(op, ok, success, key, event) ==
    [op |-> op, ok |-> ok, success |-> success, requeue |-> FALSE,
     key |-> key, event |-> event]

basic_ack == Effect("basic_ack", TRUE, FALSE, Absent, NoEvent)

basic_nack(requeue) ==
    [Effect("basic_nack", TRUE, FALSE, Absent, NoEvent) EXCEPT !.requeue = requeue]

\* ------------------------------------------------------------ Peer Client
\* What the HTTP POST of submit_artifact does.
Http(kind, status, shape, hasSuccess, success, tx, peer, err) ==
    [kind |-> kind, status |-> status, shape |-> shape,
     hasSuccess |-> hasSuccess, success |-> success,
     txId |-> tx, peerId |-> peer, error |-> err]

HttpFault(kind) == Http(kind, 0, "none", FALSE, FALSE, Absent, Absent, Absent)

HttpResponse(status, shape, hasSuccess, success, tx, peer, err) ==
    Http("response", status, shape, hasSuccess, success, tx, peer, err)

HttpOutcomes ==
    {HttpFault(k) : k \in {"timeout", "connection_error", "other_exception"}}
    \cup {HttpResponse(500, "object", TRUE, TRUE, "tx", PEER_ID, Absent),
          HttpResponse(200, "malformed", FALSE, FALSE, Absent, Absent, Absent),
          HttpResponse(200, "nonobject", FALSE, FALSE, Absent, Absent, Absent),
          HttpResponse(200, "object", FALSE, FALSE, "tx", PEER_ID, Absent),
          HttpResponse(200, "object", TRUE, TRUE, "tx", PEER_ID, Absent),
          HttpResponse(200, "object", TRUE, TRUE, Absent, PEER_ID, Absent),
          HttpResponse(200, "object", TRUE, FALSE, Absent, PEER_ID, ErrGas),
          HttpResponse(200, "object", TRUE, FALSE, Absent, Absent, Absent)}

Outcome(success, tx, peer, err) ==
    [success |-> success, txId |-> tx, peerId |-> peer, error |-> err]

FailureOutcome(err) == Outcome(FALSE, Absent, Absent, err)

\* response.raise_for_status(): HTTPError for a 4xx or 5xx status.
raise_for_status(status) == status >= 400 /\ status < 600

\* An exception that leaves a function instead of a returned value.
Propagates(kind) == [exception |-> kind]

Returned(result) == "exception" \notin DOMAIN result

\* The HTTP requests one call of submit_artifact issues, with a second
\* session.post after a timeout.
submit_artifact_requests_retry(http) ==
    LET post == Effect("session.post", http.kind = "response", FALSE, Absent, NoEvent)
    IN  IF http.kind = "timeout" THEN <<post, post>> ELSE <<post>>

\* The HTTP requests one call of submit_artifact issues: one session.post,
\* which returns a response or raises.
submit_artifact_requests(http) ==
    <<Effect("session.post", http.kind = "response", FALSE, Absent, NoEvent)>>

\* submit_artifact without the last except branch (`except Exception`).
submit_artifact_no_last_except(http) ==
    IF http.kind = "timeout" THEN FailureOutcome(ErrTimeout)
    ELSE IF http.kind = "connection_error" THEN FailureOutcome(ErrConnection)
    ELSE IF http.kind = "other_exception" THEN Propagates("other_exception")
    ELSE IF raise_for_status(http.status) THEN FailureOutcome(ErrHttp(http.status))
    ELSE IF http.shape # "object" THEN FailureOutcome(ErrInvalid)
    ELSE IF ~http.hasSuccess THEN FailureOutcome(ErrInvalid)
    ELSE Outcome(http.success, http.txId, http.peerId, http.error)

\* submit_artifact without response.raise_for_status(): the body decides.
submit_artifact_no_status_check(http) ==
    IF http.kind = "timeout" THEN FailureOutcome(ErrTimeout)
    ELSE IF http.kind = "connection_error" THEN FailureOutcome(ErrConnection)
    ELSE IF http.kind = "other_exception" THEN FailureOutcome(ErrUnexpected)
    ELSE IF http.shape # "object" THEN FailureOutcome(ErrInvalid)
    ELSE IF ~http.hasSuccess THEN FailureOutcome(ErrInvalid)
    ELSE Outcome(http.success, http.txId, http.peerId, http.error)

\* submit_artifact without the except branches for Timeout and
\* ConnectionError: the catch-all branch takes them.
submit_artifact_catch_all(http) ==
    IF http.kind \in {"timeout", "connection_error", "other_exception"}
    THEN FailureOutcome(ErrUnexpected)
    ELSE IF raise_for_status(http.status) THEN FailureOutcome(ErrHttp(http.status))
    ELSE IF http.shape # "object" THEN FailureOutcome(ErrInvalid)
    ELSE IF ~http.hasSuccess THEN FailureOutcome(ErrInvalid)
    ELSE Outcome(http.success, http.txId, http.peerId, http.error)

submit_artifact(http) ==
    IF http.kind = "timeout" THEN FailureOutcome(ErrTimeout)
    ELSE IF http.kind = "connection_error" THEN FailureOutcome(ErrConnection)
    ELSE IF http.kind = "other_exception" THEN FailureOutcome(ErrUnexpected)
    ELSE IF raise_for_status(http.status) THEN FailureOutcome(ErrHttp(http.status))
    ELSE IF http.shape = "malformed" THEN FailureOutcome(ErrInvalid)
    ELSE IF http.shape # "object" THEN FailureOutcome(ErrInvalid)
    ELSE IF ~http.hasSuccess THEN FailureOutcome(ErrInvalid)
    ELSE Outcome(http.success, http.txId, http.peerId, http.error)

\* health_check without response.raise_for_status(): any response is healthy.
health_check_any_response(http) == http.kind = "response"

\* PeerClient.health_check: True when session.get returns a response and
\* raise_for_status() accepts it; False when either raises.
health_check(http) ==
    IF http.kind # "response" THEN FALSE
    ELSE IF raise_for_status(http.status) THEN FALSE
    ELSE TRUE

\* ------------------------------------------------------ Submission Worker
\* What the peer step of process_artifact_submission meets: the Peer Client
\* returns the outcome of its HTTP call, or (a peer_client that raises, as
\* the Worker's tests install) an exception reaches the Worker's handler.
PeerStep(raises, http) == [raises |-> raises, http |-> http, exc |-> Absent]

\* A peer step that raises an exception whose str() is text.
PeerRaise(text) == [PeerStep(TRUE, HttpFault("other_exception")) EXCEPT !.exc = text]

PeerSteps ==
    {PeerStep(FALSE, h) : h \in HttpOutcomes}
    \cup {PeerRaise(t) : t \in ExcTexts}

\* The peer steps the pipeline's runs draw from (the callbacks' own runs
\* draw from all of PeerSteps).
PipelinePeerSteps ==
    {PeerStep(FALSE, HttpResponse(200, "object", TRUE, TRUE, "tx", PEER_ID, Absent)),
     PeerStep(FALSE, HttpFault("timeout")),
     PeerRaise("fail")}

\* The message with the error copied whenever the outcome carries one, also
\* for a success outcome.
submitted_message_any_error(artifact_id, submission_result) ==
    SubmittedBody("object", artifact_id,
        IF submission_result.success THEN "SUCCESS" ELSE "FAILED",
        Now, "v1",
        IF submission_result.success /\ Truthy(submission_result.txId)
            THEN submission_result.txId ELSE Absent,
        IF Truthy(submission_result.peerId)
            THEN submission_result.peerId ELSE Absent,
        IF Truthy(submission_result.error)
            THEN submission_result.error ELSE Absent)

\* The message publish_artifact_submitted builds (lines 57-74).
submitted_message(artifact_id, submission_result) ==
    SubmittedBody("object", artifact_id,
        IF submission_result.success THEN "SUCCESS" ELSE "FAILED",
        Now, "v1",
        IF submission_result.success /\ Truthy(submission_result.txId)
            THEN submission_result.txId ELSE Absent,
        IF Truthy(submission_result.peerId)
            THEN submission_result.peerId ELSE Absent,
        IF ~submission_result.success /\ Truthy(submission_result.error)
            THEN submission_result.error ELSE Absent)

\* publish_artifact_submitted: one channel.basic_publish, which returns
\* (published) or raises (nothing published; the exception is re-raised).
publish_artifact_submitted(artifact_id, submission_result, published) ==
    Effect("basic_publish", published, FALSE, artifact_id,
           submitted_message(artifact_id, submission_result))

\* process_artifact_submission publishing the outcome before the peer call
\* has come back.
process_artifact_submission_publish_first(artifact_id, peer, pubOk) ==
    LET submission_result == submit_artifact(peer.http)
        failure_result(e) == FailureOutcome(ProcessingFailed(e))
        call == Effect("submit_artifact", ~peer.raises,
                       ~peer.raises /\ submission_result.success,
                       artifact_id, NoEvent)
    IN  IF peer.raises
        THEN [effects |-> <<call,
                  publish_artifact_submitted(artifact_id, failure_result(peer.exc), pubOk[1])>>,
              ret |-> IF pubOk[1] THEN "False" ELSE "raise"]
        ELSE IF pubOk[1]
        THEN [effects |-> <<
                  publish_artifact_submitted(artifact_id, submission_result, TRUE),
                  call>>,
              ret |-> "True"]
        ELSE [effects |-> <<
                  publish_artifact_submitted(artifact_id, submission_result, FALSE),
                  call,
                  publish_artifact_submitted(artifact_id, failure_result(PublishExc), pubOk[2])>>,
              ret |-> IF pubOk[2] THEN "False" ELSE "raise"]

\* process_artifact_submission with the failure event published in a finally
\* block instead of the except block: it follows a successful publish too.
process_artifact_submission_finally(artifact_id, peer, pubOk) ==
    LET submission_result == submit_artifact(peer.http)
        failure_result(e) == FailureOutcome(ProcessingFailed(e))
        call == Effect("submit_artifact", ~peer.raises,
                       ~peer.raises /\ submission_result.success,
                       artifact_id, NoEvent)
    IN  IF peer.raises
        THEN [effects |-> <<call,
                  publish_artifact_submitted(artifact_id, failure_result(peer.exc), pubOk[1])>>,
              ret |-> IF pubOk[1] THEN "False" ELSE "raise"]
        ELSE [effects |-> <<call,
                  publish_artifact_submitted(artifact_id, submission_result, pubOk[1]),
                  publish_artifact_submitted(artifact_id, failure_result(PublishExc), pubOk[2])>>,
              ret |-> IF ~pubOk[2] THEN "raise"
                      ELSE IF pubOk[1] THEN "True" ELSE "False"]

\* process_artifact_submission with a failure event that does not carry the
\* caught exception's text.
process_artifact_submission_generic_error(artifact_id, peer, pubOk) ==
    LET submission_result == submit_artifact(peer.http)
        failure_result(e) == FailureOutcome(ErrProcessing)
        call == Effect("submit_artifact", ~peer.raises,
                       ~peer.raises /\ submission_result.success,
                       artifact_id, NoEvent)
    IN  IF peer.raises
        THEN [effects |-> <<call,
                  publish_artifact_submitted(artifact_id, failure_result(peer.exc), pubOk[1])>>,
              ret |-> IF pubOk[1] THEN "False" ELSE "raise"]
        ELSE IF pubOk[1]
        THEN [effects |-> <<call,
                  publish_artifact_submitted(artifact_id, submission_result, TRUE)>>,
              ret |-> "True"]
        ELSE [effects |-> <<call,
                  publish_artifact_submitted(artifact_id, submission_result, FALSE),
                  publish_artifact_submitted(artifact_id, failure_result(PublishExc), pubOk[2])>>,
              ret |-> IF pubOk[2] THEN "False" ELSE "raise"]

\* process_artifact_submission: the effects and how it ends, "True", "False"
\* or "raise". pubOk[n] is whether the n-th basic_publish of the run returns.
process_artifact_submission(artifact_id, peer, pubOk) ==
    LET submission_result == submit_artifact(peer.http)
        failure_result(e) == FailureOutcome(ProcessingFailed(e))
        call == Effect("submit_artifact", ~peer.raises,
                       ~peer.raises /\ submission_result.success,
                       artifact_id, NoEvent)
    IN  IF peer.raises
        THEN [effects |-> <<call,
                  publish_artifact_submitted(artifact_id, failure_result(peer.exc), pubOk[1])>>,
              ret |-> IF pubOk[1] THEN "False" ELSE "raise"]
        ELSE IF pubOk[1]
        THEN [effects |-> <<call,
                  publish_artifact_submitted(artifact_id, submission_result, TRUE)>>,
              ret |-> "True"]
        ELSE [effects |-> <<call,
                  publish_artifact_submitted(artifact_id, submission_result, FALSE),
                  publish_artifact_submitted(artifact_id, failure_result(PublishExc), pubOk[2])>>,
              ret |-> IF pubOk[2] THEN "False" ELSE "raise"]

\* The Worker's callback acknowledging whatever process_artifact_submission
\* returns.
worker_callback_ack_any(body, peer, pubOk) ==
    IF body.kind = "notutf8"
    THEN [effects |-> <<>>, raised |-> TRUE]
    ELSE IF body.kind # "object" \/ ~Truthy(body.artifactId)
    THEN [effects |-> <<basic_nack(FALSE)>>, raised |-> FALSE]
    ELSE LET p == process_artifact_submission(body.artifactId, peer, pubOk)
         IN  [effects |-> p.effects \o
                  <<IF p.ret # "raise" THEN basic_ack ELSE basic_nack(FALSE)>>,
              raised |-> FALSE]

\* The Worker's callback: its effects, and whether an exception leaves it.
worker_callback(body, peer, pubOk) ==
    IF body.kind = "notutf8"
    THEN [effects |-> <<>>, raised |-> TRUE]
    ELSE IF body.kind = "badjson"
    THEN [effects |-> <<basic_nack(FALSE)>>, raised |-> FALSE]
    ELSE IF body.kind # "object"
    THEN [effects |-> <<basic_nack(FALSE)>>, raised |-> FALSE]
    ELSE IF ~Truthy(body.artifactId)
    THEN [effects |-> <<basic_nack(FALSE)>>, raised |-> FALSE]
    ELSE LET p == process_artifact_submission(body.artifactId, peer, pubOk)
         IN  [effects |-> p.effects \o
                  <<IF p.ret = "True" THEN basic_ack ELSE basic_nack(FALSE)>>,
              raised |-> FALSE]

\* ---------------------------------------------------- Submission Listener
\* artifact.submitted.v1.schema.json: the required fields and the enum.
SchemaRequired == {"artifactId", "submissionState", "submittedAt", "version"}

SchemaStates == {"SUCCESS", "FAILED", "PENDING"}

\* validate_message with a schema that requires blockchainTxId of a SUCCESS.
validate_message_requires_tx(message) ==
    /\ message.kind = "object"
    /\ \A f \in SchemaRequired : message[f] # Absent
    /\ message.submissionState \in SchemaStates
    /\ message.submissionState = "SUCCESS" => message.blockchainTxId # Absent

\* validate_message: jsonschema.validate against the schema.
validate_message(message) ==
    /\ message.kind = "object"
    /\ \A f \in SchemaRequired : message[f] # Absent
    /\ message.submissionState \in SchemaStates

\* What the PATCH of update_artifact_status meets.
UpdateOutcomes == {"ok", "timeout", "http_error", "request_exception", "unexpected"}

\* The body of the PATCH with blockchainTxId only for a SUCCESS message.
patch_data_tx_on_success(submission_data) ==
    SubmittedBody("patch", Absent, submission_data.submissionState,
                  submission_data.submittedAt, Absent,
                  IF submission_data.submissionState = "SUCCESS"
                  THEN submission_data.blockchainTxId ELSE Absent,
                  submission_data.peerId, Absent)

\* The whole message as the body of the PATCH.
patch_data_whole_message(submission_data) ==
    [submission_data EXCEPT !.kind = "patch"]

\* patch_data: the JSON body of the PATCH, submissionState and submittedAt
\* always, blockchainTxId and peerId when the message holds the key; it has
\* no artifactId, version or error.
patch_data(submission_data) ==
    SubmittedBody("patch", Absent, submission_data.submissionState,
                  submission_data.submittedAt, Absent,
                  submission_data.blockchainTxId, submission_data.peerId,
                  Absent)

\* The default of API_GATEWAY_URL outside Docker.
API_GATEWAY_URL == "http://localhost:3000/api/v1/artifacts"

\* url = f"{API_GATEWAY_URL}/{artifact_id}", as its parts between the
\* slashes that the f-string writes.
patch_url(artifact_id) == <<API_GATEWAY_URL, artifact_id>>

\* The names of the headers of the PATCH.
patch_headers == {"Content-Type", "X-API-Key", "X-Service-Role", "User-Agent"}

RECURSIVE PatchRequests(_)
\* The requests.patch calls among the effects of a run, each with its URL,
\* its JSON body and its headers, in program order.
PatchRequests(effects) ==
    IF effects = <<>> THEN <<>>
    ELSE (IF Head(effects).op = "requests.patch"
          THEN <<[method |-> "PATCH", url |-> patch_url(Head(effects).key),
                  json |-> Head(effects).event, headers |-> patch_headers]>>
          ELSE <<>>) \o PatchRequests(Tail(effects))

\* update_artifact_status repeating a PATCH that failed.
update_artifact_status_retry(artifact_id, submission_data, upd) ==
    LET patch == Effect("requests.patch", upd = "ok", FALSE, artifact_id,
                        patch_data(submission_data))
    IN  [effects |-> IF upd \in {"ok", "unexpected"} THEN <<patch>> ELSE <<patch, patch>>,
         ret |-> IF upd = "ok" THEN "True"
                 ELSE IF upd = "unexpected" THEN "raise" ELSE "False"]

\* update_artifact_status: one requests.patch to <API_GATEWAY_URL>/<artifact_id>
\* with patch_data as its JSON body; it ends "True", "False" (Timeout,
\* HTTPError, RequestException) or "raise".
update_artifact_status(artifact_id, submission_data, upd) ==
    [effects |-> <<Effect("requests.patch", upd = "ok", FALSE, artifact_id,
                          patch_data(submission_data))>>,
     ret |-> IF upd = "ok" THEN "True"
             ELSE IF upd = "unexpected" THEN "raise" ELSE "False"]

\* The Listener's callback with requeue=True in its basic_nack calls.
listener_callback_requeue(body, upd) ==
    IF body.kind = "notutf8"
    THEN [effects |-> <<>>, raised |-> TRUE]
    ELSE IF body.kind = "badjson" \/ ~validate_message(body)
    THEN [effects |-> <<basic_nack(TRUE)>>, raised |-> FALSE]
    ELSE LET u == update_artifact_status(body.artifactId, body, upd)
         IN  [effects |-> u.effects \o
                  <<IF u.ret = "True" THEN basic_ack ELSE basic_nack(TRUE)>>,
              raised |-> FALSE]

\* The Listener's callback acknowledging before it updates.
listener_callback_ack_first(body, upd) ==
    IF body.kind = "notutf8"
    THEN [effects |-> <<>>, raised |-> TRUE]
    ELSE IF body.kind = "badjson" \/ ~validate_message(body)
    THEN [effects |-> <<basic_nack(FALSE)>>, raised |-> FALSE]
    ELSE LET u == update_artifact_status(body.artifactId, body, upd)
         IN  [effects |-> <<basic_ack>> \o u.effects, raised |-> FALSE]

\* The Listener's callback updating before it validates.
listener_callback_update_first(body, upd) ==
    IF body.kind = "notutf8"
    THEN [effects |-> <<>>, raised |-> TRUE]
    ELSE IF body.kind # "object"
    THEN [effects |-> <<basic_nack(FALSE)>>, raised |-> FALSE]
    ELSE LET u == update_artifact_status(body.artifactId, body, upd)
         IN  [effects |-> u.effects \o
                  <<IF u.ret = "True" /\ validate_message(body)
                    THEN basic_ack ELSE basic_nack(FALSE)>>,
              raised |-> FALSE]

\* The Listener's callback: its effects, and whether an exception leaves it.
listener_callback(body, upd) ==
    IF body.kind = "notutf8"
    THEN [effects |-> <<>>, raised |-> TRUE]
    ELSE IF body.kind = "badjson"
    THEN [effects |-> <<basic_nack(FALSE)>>, raised |-> FALSE]
    ELSE IF ~validate_message(body)
    THEN [effects |-> <<basic_nack(FALSE)>>, raised |-> FALSE]
    ELSE LET u == update_artifact_status(body.artifactId, body, upd)
         IN  [effects |-> u.effects \o
                  <<IF u.ret = "True" THEN basic_ack ELSE basic_nack(FALSE)>>,
              raised |-> FALSE]

\* Bodies that reach artifact.submitted.queue from elsewhere than the Worker.
InjectedBodies ==
    {SubmittedBody(k, Absent, Absent, Absent, Absent, Absent, Absent, Absent) :
        k \in {"notutf8", "badjson", "nonobject"}}
    \cup {SubmittedBody("object", "a1", "SUCCESS", Absent, "v1", "tx", Absent, Absent),
          SubmittedBody("object", "a1", "INVALID_STATE", Now, "v1", Absent, Absent, Absent),
          SubmittedBody("object", "a2", "PENDING", Now, "v1", Absent, Absent, Absent)}

\* Every body the Worker can publish.
WorkerEvents ==
    {submitted_message(a, submit_artifact(h)) : a \in ArtifactIds, h \in HttpOutcomes}
    \cup {submitted_message(a, FailureOutcome(ProcessingFailed(t))) :
             a \in ArtifactIds, t \in ExcTexts \cup {PublishExc}}

PipelineCreatedBodies ==
    {CreatedBody("notutf8", Absent), CreatedBody("badjson", Absent)}
    \cup {CreatedBody("object", a) : a \in ArtifactIds}

PipelineInjectedBodies ==
    {SubmittedBody("notutf8", Absent, Absent, Absent, Absent, Absent, Absent, Absent),
     SubmittedBody("object", "a1", "INVALID_STATE", Now, "v1", Absent, Absent, Absent),
     SubmittedBody("object", "a2", "PENDING", Now, "v1", Absent, Absent, Absent)}

PipelineUpdateOutcomes == {"ok", "http_error"}

\* ------------------------------------------------------------------ state
VARIABLES
    createdQ,    \* artifact.created.queue: the bodies ready for delivery
    submittedQ,  \* artifact.submitted.queue: the bodies ready for delivery
    wRunning,    \* the Worker's consumer loop is consuming
    lRunning,    \* the Listener's consumer loop is consuming
    wRun,        \* the Worker callback's latest run
    lRun,        \* the Listener callback's latest run
    external,    \* how many times the environment has acted so far
    entered,     \* per artifactId: creation events that entered the queue
    delivered,   \* per artifactId: a terminal event reached the Listener's callback
    sorOk,       \* per artifactId: status updates the gateway answered 2xx
    called,      \* per artifactId: a peer call of the Worker has come back
    unit         \* the latest run of a function run on its own

vars == <<createdQ, submittedQ, wRunning, lRunning, wRun, lRun,
          external, entered, delivered, sorOk, called, unit>>

\* The state of the pipeline and of the callbacks' runs.
pipeline == <<createdQ, submittedQ, wRunning, lRunning, wRun, lRun,
              external, entered, delivered, sorOk, called>>

WorkerIdle ==
    [delivered |-> FALSE, body |-> CreatedBody("none", Absent),
     peer |-> PeerStep(FALSE, HttpFault("none")), requests |-> <<>>,
     effects |-> <<>>, raised |-> FALSE, completed |-> FALSE]

\* No run yet of a function run on its own.
UnitIdle == [fn |-> "none"]

ListenerIdle ==
    [delivered |-> FALSE, body |-> NoEvent, upd |-> "none",
     effects |-> <<>>, raised |-> FALSE, completed |-> FALSE]

Init ==
    /\ createdQ = <<>>
    /\ submittedQ = <<>>
    /\ wRunning = TRUE
    /\ lRunning = TRUE
    /\ wRun = WorkerIdle
    /\ lRun = ListenerIdle
    /\ external = 0
    /\ entered = [a \in ArtifactIds |-> 0]
    /\ delivered = [a \in ArtifactIds |-> FALSE]
    /\ sorOk = [a \in ArtifactIds |-> 0]
    /\ called = [a \in ArtifactIds |-> FALSE]
    /\ unit = UnitIdle

\* ----------------------------------------------------------------- broker
Last(s) == s[Len(s)]

\* The queue after the delivery of its head: basic_ack and
\* basic_nack(requeue=False) remove the message; basic_nack(requeue=True)
\* puts it back at its place; a delivery never settled stays unacknowledged
\* and is ready again once the consumer's connection is closed.
Settle(queue, effects) ==
    IF effects = <<>> THEN queue
    ELSE IF Last(effects).op = "basic_ack" THEN Tail(queue)
    ELSE IF Last(effects).op = "basic_nack" /\ ~Last(effects).requeue THEN Tail(queue)
    ELSE queue

RECURSIVE PeerRequests(_, _)
\* The HTTP requests the submit_artifact calls of a run issue (none is known
\* of a peer_client replaced by one that raises).
PeerRequests(effects, peer) ==
    IF effects = <<>> THEN <<>>
    ELSE (IF Head(effects).op = "submit_artifact" /\ ~peer.raises
          THEN submit_artifact_requests(peer.http) ELSE <<>>)
         \o PeerRequests(Tail(effects), peer)

RECURSIVE Published(_)
\* The bodies the basic_publish calls of a run put on the submitted queue.
Published(effects) ==
    IF effects = <<>> THEN <<>>
    ELSE (IF Head(effects).op = "basic_publish" /\ Head(effects).ok
          THEN <<Head(effects).event>> ELSE <<>>) \o Published(Tail(effects))

\* peer_client.submit_artifact was called for artifactId a and came back.
PeerCalled(effects, a) ==
    \E i \in 1..Len(effects) :
        effects[i].op = "submit_artifact" /\ effects[i].key = a

RECURSIVE Updated(_, _)
\* The number of PATCH calls for artifactId a the gateway answered 2xx.
Updated(effects, a) ==
    IF effects = <<>> THEN 0
    ELSE (IF Head(effects).op = "requests.patch" /\ Head(effects).ok
             /\ Head(effects).key = a THEN 1 ELSE 0) + Updated(Tail(effects), a)

\* ---------------------------------------------------------------- actions
\* The upstream producer puts a creation message on artifact.created.queue.
ProduceCreated ==
    /\ external < MaxExternal
    /\ \E body \in PipelineCreatedBodies :
        /\ createdQ' = Append(createdQ, body)
        /\ entered' = [a \in ArtifactIds |->
              IF body.kind = "object" /\ body.artifactId = a
              THEN entered[a] + 1 ELSE entered[a]]
    /\ external' = external + 1
    /\ UNCHANGED <<submittedQ, wRunning, lRunning, wRun, lRun, delivered, sorOk, called, unit>>

\* Another publisher puts a body on artifact.submitted.queue.
InjectSubmitted ==
    /\ external < MaxExternal
    /\ \E body \in PipelineInjectedBodies : submittedQ' = Append(submittedQ, body)
    /\ external' = external + 1
    /\ UNCHANGED <<createdQ, wRunning, lRunning, wRun, lRun, entered, delivered, sorOk, called, unit>>

\* The broker delivers the head of artifact.created.queue and the Worker's
\* callback handles it. cut < Len(effects): the process is terminated from
\* outside after its first cut external calls.
WorkerDeliver ==
    /\ wRunning
    /\ createdQ # <<>>
    /\ \E peer \in PipelinePeerSteps, pubOk \in [1..2 -> BOOLEAN] :
        LET body == Head(createdQ)
            r == worker_callback(body, peer, pubOk)
        IN  \E cut \in 0..Len(r.effects) :
              LET killed == cut < Len(r.effects)
                  kept == SubSeq(r.effects, 1, cut)
              IN  /\ killed => external < MaxExternal
                  /\ createdQ' = Settle(createdQ, kept)
                  /\ submittedQ' = submittedQ \o Published(kept)
                  /\ wRunning' = (~killed /\ ~r.raised)
                  /\ external' = IF killed THEN external + 1 ELSE external
                  /\ called' = [a \in ArtifactIds |->
                        called[a] \/ PeerCalled(kept, a)]
    /\ UNCHANGED <<lRunning, wRun, lRun, entered, delivered, sorOk, unit>>

\* A submitted event with a terminal state for artifactId a.
Terminal(body, a) ==
    /\ body.kind = "object"
    /\ body.artifactId = a
    /\ body.submissionState \in {"SUCCESS", "FAILED"}

\* The broker delivers the head of artifact.submitted.queue and the
\* Listener's callback handles it.
ListenerDeliver ==
    /\ lRunning
    /\ submittedQ # <<>>
    /\ \E upd \in PipelineUpdateOutcomes :
        LET body == Head(submittedQ)
            r == listener_callback(body, upd)
        IN  \E cut \in 0..Len(r.effects) :
              LET killed == cut < Len(r.effects)
                  kept == SubSeq(r.effects, 1, cut)
              IN  /\ killed => external < MaxExternal
                  /\ submittedQ' = Settle(submittedQ, kept)
                  /\ sorOk' = [a \in ArtifactIds |-> sorOk[a] + Updated(kept, a)]
                  /\ delivered' = [a \in ArtifactIds |->
                        delivered[a] \/ (~r.raised /\ Terminal(body, a))]
                  /\ lRunning' = (~killed /\ ~r.raised)
                  /\ external' = IF killed THEN external + 1 ELSE external
    /\ UNCHANGED <<createdQ, wRunning, wRun, lRun, entered, called, unit>>

\* The Worker process is started again: start_rabbitmq_consumer.
WorkerStart ==
    /\ ~wRunning
    /\ wRunning' = TRUE
    /\ UNCHANGED <<createdQ, submittedQ, lRunning, wRun, lRun,
                   external, entered, delivered, sorOk, called, unit>>

\* The Listener process is started again: start_rabbitmq_consumer.
ListenerStart ==
    /\ ~lRunning
    /\ lRunning' = TRUE
    /\ UNCHANGED <<createdQ, submittedQ, wRunning, wRun, lRun,
                   external, entered, delivered, sorOk, called, unit>>

\* The Worker's callback is called with a body (any body, any peer step, any
\* outcome of its publishes) and runs to its end.
WorkerRun ==
    /\ \E body \in CreatedBodies, peer \in PeerSteps, pubOk \in [1..2 -> BOOLEAN] :
        LET r == worker_callback(body, peer, pubOk)
        IN  wRun' = [delivered |-> TRUE, body |-> body, peer |-> peer,
                     requests |-> PeerRequests(r.effects, peer),
                     effects |-> r.effects,
                     raised |-> r.raised, completed |-> TRUE]
    /\ lRun' = ListenerIdle
    /\ UNCHANGED <<createdQ, submittedQ, wRunning, lRunning,
                   external, entered, delivered, sorOk, called, unit>>

\* The Listener's callback is called with a body and runs to its end.
ListenerRun ==
    /\ \E body \in InjectedBodies \cup WorkerEvents, upd \in UpdateOutcomes :
        LET r == listener_callback(body, upd)
        IN  lRun' = [delivered |-> TRUE, body |-> body, upd |-> upd,
                     effects |-> r.effects, raised |-> r.raised,
                     completed |-> TRUE]
    /\ wRun' = WorkerIdle
    /\ UNCHANGED <<createdQ, submittedQ, wRunning, lRunning,
                   external, entered, delivered, sorOk, called, unit>>

CallbackNext ==
    \/ WorkerRun
    \/ ListenerRun

\* The callbacks alone, on every body and every behaviour of what they call.
CallbackSpec == Init /\ [][CallbackNext]_vars

Next ==
    \/ ProduceCreated
    \/ InjectSubmitted
    \/ WorkerDeliver
    \/ ListenerDeliver
    \/ WorkerStart
    \/ ListenerStart

Spec == Init /\ [][Next]_vars

\* The consumer loops block on the next delivery and run the callback on it.
FairSpec == Spec /\ WF_vars(WorkerDeliver) /\ WF_vars(ListenerDeliver)

\* ---------------------------------------------------------------- mock peer
\* A text is the sequence of its words, written with one space between
\* them; '' is the empty sequence. No pattern holds a space, so a pattern
\* occurs in a text exactly when it occurs in one of its words.
TitleWords ==
    {"ok", "TEST_GAS", "Test_Fail", "force_network", "re-test_gas!",
     "test_success"}

\* str.lower() of a word.
lower(word) ==
    CASE word = "TEST_GAS" -> "test_gas"
      [] word = "Test_Fail" -> "test_fail"
      [] word = "Force_Network" -> "force_network"
      [] word = "Should_Pass" -> "should_pass"
      [] word = "Test-Fail" -> "test-fail"
      [] word = "Force-Success" -> "force-success"
      [] OTHER -> word

\* [k.lower() for k in ...], and str.lower() of a text word by word.
RECURSIVE lower_all(_)
lower_all(words) ==
    IF words = <<>> THEN <<>>
    ELSE <<lower(Head(words))>> \o lower_all(Tail(words))

\* `pattern in text` of Python, on a lower-cased text: a substring test.
Contains(text, pattern) ==
    \E i \in 1..Len(text) :
        \/ text[i] = pattern
        \/ text[i] = "re-test_gas!" /\ pattern = "test_gas"

\* dict.get(key, default)
Get(dict, key, default) == IF key \in DOMAIN dict THEN dict[key] ELSE default

success_patterns ==
    <<"test_success", "force_success", "should_pass", "test-pass",
      "guarantee_success", "always_pass">>

success_keywords == <<"test-success", "force-success", "should-pass">>

ErrNetwork == "Network congestion - transaction rejected"
ErrPeerTimeout == "Peer connection timeout"
ErrFormat == "Invalid artifact data format"
ErrUnavailable == "Blockchain temporarily unavailable"
ErrRejected == "Transaction rejected by blockchain"

\* The dict of failure patterns, in its declared order (the order in which
\* a dict is iterated).
failure_patterns ==
    <<[pattern |-> "test_gas", error_msg |-> ErrGas],
      [pattern |-> "force_gas", error_msg |-> ErrGas],
      [pattern |-> "test_network", error_msg |-> ErrNetwork],
      [pattern |-> "force_network", error_msg |-> ErrNetwork],
      [pattern |-> "test_timeout", error_msg |-> ErrPeerTimeout],
      [pattern |-> "force_timeout", error_msg |-> ErrPeerTimeout],
      [pattern |-> "test_invalid", error_msg |-> ErrFormat],
      [pattern |-> "force_invalid", error_msg |-> ErrFormat],
      [pattern |-> "test_fail", error_msg |-> ErrUnavailable],
      [pattern |-> "force_fail", error_msg |-> ErrUnavailable],
      [pattern |-> "test_rejected", error_msg |-> ErrRejected],
      [pattern |-> "force_rejected", error_msg |-> ErrRejected]>>

failure_keywords ==
    [keyword \in {"test-fail", "force-fail", "test-gas", "test-network"} |->
        CASE keyword = "test-fail" -> ErrUnavailable
          [] keyword = "force-fail" -> ErrUnavailable
          [] keyword = "test-gas" -> ErrGas
          [] keyword = "test-network" -> ErrNetwork]

error_options == <<ErrNetwork, ErrGas, ErrUnavailable, ErrPeerTimeout>>

\* int(hashlib.md5(artifact_id.encode()).hexdigest(), 16) % 100, for the
\* artifact ids of the model. Since 4 divides 100, hash_val % 4 is this
\* value % 4.
md5_mod_100(artifact_id) ==
    CASE artifact_id = "" -> 66
      [] artifact_id = "a1" -> 54
      [] artifact_id = "a2" -> 20
      [] artifact_id = "a28" -> 95
      [] artifact_id = "a65" -> 98

\* The least index of a sequence that satisfies a test given as a set.
First(indices) == CHOOSE i \in indices : \A j \in indices : i <= j

\* JSON null (None) where a text or a list is expected; no word is "<null>".
Null == <<"<null>">>

\* str(e) of the exception that leaves determine_success_from_artifact when
\* title, description or keywords is null: None has no .lower() and cannot
\* be iterated. Absent: no exception.
determine_success_from_artifact_raises(artifact_data) ==
    IF \/ Get(artifact_data, "title", <<>>) = Null
       \/ Get(artifact_data, "description", <<>>) = Null
    THEN "'NoneType' object has no attribute 'lower'"
    ELSE IF Get(artifact_data, "keywords", <<>>) = Null
    THEN "'NoneType' object is not iterable"
    ELSE Absent

Decision(success, error_msg) == [success |-> success, error_msg |-> error_msg]

\* The same, the failure pattern declared last winning.
determine_success_from_artifact_last_declared(artifact_data) ==
    LET title == lower_all(Get(artifact_data, "title", <<>>))
        description == lower_all(Get(artifact_data, "description", <<>>))
        keywords == lower_all(Get(artifact_data, "keywords", <<>>))
        failing ==
            {i \in 1..Len(failure_patterns) :
                \/ Contains(title, failure_patterns[i].pattern)
                \/ Contains(description, failure_patterns[i].pattern)}
        last == CHOOSE i \in failing : \A j \in failing : j <= i
        failing_keywords ==
            {j \in 1..Len(keywords) : keywords[j] \in DOMAIN failure_keywords}
        artifact_id == Get(artifact_data, "artifactId", "")
        hash_val == md5_mod_100(artifact_id)
    IN  IF \E p \in 1..Len(success_patterns) :
              \/ Contains(title, success_patterns[p])
              \/ Contains(description, success_patterns[p])
        THEN Decision(TRUE, Absent)
        ELSE IF \E k \in 1..Len(success_keywords), j \in 1..Len(keywords) :
              keywords[j] = success_keywords[k]
        THEN Decision(TRUE, Absent)
        ELSE IF failing # {}
        THEN Decision(FALSE, failure_patterns[last].error_msg)
        ELSE IF failing_keywords # {}
        THEN Decision(FALSE, failure_keywords[keywords[First(failing_keywords)]])
        ELSE IF hash_val < 95
        THEN Decision(TRUE, Absent)
        ELSE Decision(FALSE, error_options[(hash_val % 4) + 1])

\* The same, comparing the texts as they were sent.
determine_success_from_artifact_case_sensitive(artifact_data) ==
    LET title == Get(artifact_data, "title", <<>>)
        description == Get(artifact_data, "description", <<>>)
        keywords == Get(artifact_data, "keywords", <<>>)
        failing ==
            {i \in 1..Len(failure_patterns) :
                \/ Contains(title, failure_patterns[i].pattern)
                \/ Contains(description, failure_patterns[i].pattern)}
        failing_keywords ==
            {j \in 1..Len(keywords) : keywords[j] \in DOMAIN failure_keywords}
        artifact_id == Get(artifact_data, "artifactId", "")
        hash_val == md5_mod_100(artifact_id)
    IN  IF \E p \in 1..Len(success_patterns) :
              \/ Contains(title, success_patterns[p])
              \/ Contains(description, success_patterns[p])
        THEN Decision(TRUE, Absent)
        ELSE IF \E k \in 1..Len(success_keywords), j \in 1..Len(keywords) :
              keywords[j] = success_keywords[k]
        THEN Decision(TRUE, Absent)
        ELSE IF failing # {}
        THEN Decision(FALSE, failure_patterns[First(failing)].error_msg)
        ELSE IF failing_keywords # {}
        THEN Decision(FALSE, failure_keywords[keywords[First(failing_keywords)]])
        ELSE IF hash_val < 95
        THEN Decision(TRUE, Absent)
        ELSE Decision(FALSE, error_options[(hash_val % 4) + 1])

\* The same, the failure patterns looked at before the success patterns.
determine_success_from_artifact_failure_first(artifact_data) ==
    LET title == lower_all(Get(artifact_data, "title", <<>>))
        description == lower_all(Get(artifact_data, "description", <<>>))
        keywords == lower_all(Get(artifact_data, "keywords", <<>>))
        failing ==
            {i \in 1..Len(failure_patterns) :
                \/ Contains(title, failure_patterns[i].pattern)
                \/ Contains(description, failure_patterns[i].pattern)}
        failing_keywords ==
            {j \in 1..Len(keywords) : keywords[j] \in DOMAIN failure_keywords}
        artifact_id == Get(artifact_data, "artifactId", "")
        hash_val == md5_mod_100(artifact_id)
    IN  IF failing # {}
        THEN Decision(FALSE, failure_patterns[First(failing)].error_msg)
        ELSE IF failing_keywords # {}
        THEN Decision(FALSE, failure_keywords[keywords[First(failing_keywords)]])
        ELSE IF \E p \in 1..Len(success_patterns) :
              \/ Contains(title, success_patterns[p])
              \/ Contains(description, success_patterns[p])
        THEN Decision(TRUE, Absent)
        ELSE IF \E k \in 1..Len(success_keywords), j \in 1..Len(keywords) :
              keywords[j] = success_keywords[k]
        THEN Decision(TRUE, Absent)
        ELSE IF hash_val < 95
        THEN Decision(TRUE, Absent)
        ELSE Decision(FALSE, error_options[(hash_val % 4) + 1])

\* (success, error_message or None) for the data of a submission request.
determine_success_from_artifact(artifact_data) ==
    LET title == lower_all(Get(artifact_data, "title", <<>>))
        description == lower_all(Get(artifact_data, "description", <<>>))
        keywords == lower_all(Get(artifact_data, "keywords", <<>>))
        failing ==
            {i \in 1..Len(failure_patterns) :
                \/ Contains(title, failure_patterns[i].pattern)
                \/ Contains(description, failure_patterns[i].pattern)}
        failing_keywords ==
            {j \in 1..Len(keywords) : keywords[j] \in DOMAIN failure_keywords}
        artifact_id == Get(artifact_data, "artifactId", "")
        hash_val == md5_mod_100(artifact_id)
    IN  IF \E p \in 1..Len(success_patterns) :
              \/ Contains(title, success_patterns[p])
              \/ Contains(description, success_patterns[p])
        THEN Decision(TRUE, Absent)
        ELSE IF \E k \in 1..Len(success_keywords), j \in 1..Len(keywords) :
              keywords[j] = success_keywords[k]
        THEN Decision(TRUE, Absent)
        ELSE IF failing # {}
        THEN Decision(FALSE, failure_patterns[First(failing)].error_msg)
        ELSE IF failing_keywords # {}
        THEN Decision(FALSE, failure_keywords[keywords[First(failing_keywords)]])
        ELSE IF hash_val < 95
        THEN Decision(TRUE, Absent)
        ELSE Decision(FALSE, error_options[(hash_val % 4) + 1])

\* The transaction id without the "0x" in front of the digest.
tx_id_without_prefix(artifactId) ==
    CASE artifactId = "" ->
           "09e813c45eaa7f35e276f40e46584ec19258a00b0f40d7f452071bc45b342d8b"
      [] artifactId = "a1" ->
           "091c4881ec42975d6f9035b714a4f5884182fc450be8d07241569da1395a9ab6"
      [] artifactId = "a2" ->
           "763cd63274f9bc583fdcf2a35c914f70f0b2720e67e9d52485e9fabf324b07fb"
      [] artifactId = "a28" ->
           "5d77cbca8e934a2539a7af22ef2caf0daaf186e3538f3849b587a189439bdeb0"
      [] artifactId = "a65" ->
           "63aadc15959a6112d24f6ab241491f31d1127dc16174e513e8d59b322e0e32d4"

\* f"0x{hashlib.sha256(f'{artifactId}-{PEER_ID}'.encode()).hexdigest()[:64]}"
tx_id(artifactId) ==
    CASE artifactId = "" ->
           "0x09e813c45eaa7f35e276f40e46584ec19258a00b0f40d7f452071bc45b342d8b"
      [] artifactId = "a1" ->
           "0x091c4881ec42975d6f9035b714a4f5884182fc450be8d07241569da1395a9ab6"
      [] artifactId = "a2" ->
           "0x763cd63274f9bc583fdcf2a35c914f70f0b2720e67e9d52485e9fabf324b07fb"
      [] artifactId = "a28" ->
           "0x5d77cbca8e934a2539a7af22ef2caf0daaf186e3538f3849b587a189439bdeb0"
      [] artifactId = "a65" ->
           "0x63aadc15959a6112d24f6ab241491f31d1127dc16174e513e8d59b322e0e32d4"

\* f"Unexpected error during submission: {str(e)}"
UnexpectedSubmission(text) ==
    CASE text = "'NoneType' object has no attribute 'lower'" ->
           "Unexpected error during submission: 'NoneType' object has no attribute 'lower'"
      [] text = "'NoneType' object is not iterable" ->
           "Unexpected error during submission: 'NoneType' object is not iterable"

\* ArtifactSubmissionResponse: txId, peerId and error default to None.
ArtifactSubmissionResponse(success, txId, peerId, error) ==
    [success |-> success, txId |-> txId, peerId |-> peerId, error |-> error]

\* ArtifactSubmissionRequest: artifactId: str, data: dict, timestamp: str.
ArtifactSubmissionRequest(artifactId, data, timestamp) ==
    [artifactId |-> artifactId, data |-> data, timestamp |-> timestamp]

\* The same, the transaction id seeded with the artifactId of the data.
peer_submit_artifact_data_id(request) ==
    LET e == determine_success_from_artifact_raises(request.data)
        decision == determine_success_from_artifact(request.data)
    IN  IF e # Absent
        THEN ArtifactSubmissionResponse(FALSE, Absent, Absent,
                                        UnexpectedSubmission(e))
        ELSE IF decision.success
        THEN ArtifactSubmissionResponse(
                 TRUE, tx_id(Get(request.data, "artifactId", "")),
                 PEER_ID, Absent)
        ELSE ArtifactSubmissionResponse(FALSE, Absent, PEER_ID,
                                        decision.error_msg)

\* The same without the handler's `except Exception`.
peer_submit_artifact_no_except(request) ==
    LET e == determine_success_from_artifact_raises(request.data)
        decision == determine_success_from_artifact(request.data)
    IN  IF e # Absent
        THEN Propagates(e)
        ELSE IF decision.success
        THEN ArtifactSubmissionResponse(TRUE, tx_id(request.artifactId),
                                        PEER_ID, Absent)
        ELSE ArtifactSubmissionResponse(FALSE, Absent, PEER_ID,
                                        decision.error_msg)

\* POST /submit-artifact: the handler's body, its try and its except.
peer_submit_artifact(request) ==
    LET e == determine_success_from_artifact_raises(request.data)
        decision == determine_success_from_artifact(request.data)
    IN  IF e # Absent
        THEN ArtifactSubmissionResponse(FALSE, Absent, Absent,
                                        UnexpectedSubmission(e))
        ELSE IF decision.success
        THEN ArtifactSubmissionResponse(TRUE, tx_id(request.artifactId),
                                        PEER_ID, Absent)
        ELSE ArtifactSubmissionResponse(FALSE, Absent, PEER_ID,
                                        decision.error_msg)

\* The HTTP status of the answer: 200 when the handler returns a response,
\* 500 when an exception leaves it.
response_status(result) == IF Returned(result) THEN 200 ELSE 500

\* ------------------------------------------- functions run on their own
\* The outcomes publish_artifact_submitted is given: any success flag, and
\* txId, peerId and error each missing (or null), empty or set.
PublishOutcomes ==
    {Outcome(ok, tx, peer, err) :
        ok \in BOOLEAN, tx \in {Absent, "", "tx"},
        peer \in {Absent, "", PEER_ID}, err \in {Absent, "", ErrGas}}

\* publish_artifact_submitted is called with an artifactId and an outcome.
PublishRun ==
    /\ unit = UnitIdle
    /\ \E a \in ArtifactIds, o \in PublishOutcomes, published \in BOOLEAN :
        unit' = [fn |-> "publish_artifact_submitted", artifact_id |-> a,
                 submission_result |-> o,
                 call |-> publish_artifact_submitted(a, o, published)]
    /\ UNCHANGED pipeline

\* The status codes of the peer's responses the Peer Client is run on.
PeerStatuses == {200, 204, 304, 404, 500, 503}

\* Every behaviour of the HTTP call the Peer Client is run on: the faults of
\* session.post, and responses of every status with a malformed body, a JSON
\* body that is not an object, and an object with or without "success".
PeerHttpBehaviours ==
    {HttpFault(k) : k \in {"timeout", "connection_error", "other_exception"}}
    \cup {HttpResponse(st, sh, FALSE, FALSE, Absent, Absent, Absent) :
             st \in PeerStatuses, sh \in {"malformed", "nonobject"}}
    \cup {HttpResponse(st, "object", hs, ok, tx, peer, err) :
             st \in PeerStatuses, hs \in BOOLEAN, ok \in BOOLEAN,
             tx \in {Absent, "tx"}, peer \in {Absent, PEER_ID},
             err \in {Absent, ErrGas}}

\* PeerClient.submit_artifact is called and the HTTP call behaves as http.
SubmitArtifactRun ==
    /\ unit = UnitIdle
    /\ \E http \in PeerHttpBehaviours :
        unit' = [fn |-> "submit_artifact", http |-> http,
                 requests |-> submit_artifact_requests(http),
                 result |-> submit_artifact(http)]
    /\ UNCHANGED pipeline

\* Every behaviour of the GET of health_check: the faults of session.get and
\* a response of every status.
HealthBehaviours ==
    {HttpFault(k) : k \in {"timeout", "connection_error", "other_exception"}}
    \cup {HttpResponse(st, sh, FALSE, FALSE, Absent, Absent, Absent) :
             st \in PeerStatuses, sh \in {"malformed", "object"}}

\* PeerClient.health_check is called and the GET behaves as http.
HealthCheckRun ==
    /\ unit = UnitIdle
    /\ \E http \in HealthBehaviours :
        unit' = [fn |-> "health_check", http |-> http,
                 result |-> health_check(http)]
    /\ UNCHANGED pipeline

\* get_test_patterns: the document of GET /test-patterns, its keys as the
\* code writes them; the pattern lists are sets and the sentences are kept
\* whole.
get_test_patterns ==
    [description |->
        "Use these patterns in artifact title/description/keywords for predictable results",
     success_patterns |->
        [title_contains |-> {"test_success", "force_success", "should_pass", "test-pass"},
         keywords |-> {"test-success", "force-success", "should-pass"},
         example |-> "Title: 'TEST_SUCCESS - My Document' -> Always succeeds"],
     failure_patterns |->
        [gas_error |-> {"test_gas", "force_gas"},
         network_error |-> {"test_network", "force_network"},
         timeout_error |-> {"test_timeout", "force_timeout"},
         invalid_data |-> {"test_invalid", "force_invalid"},
         general_failure |-> {"test_fail", "force_fail"},
         rejected |-> {"test_rejected", "force_rejected"},
         example |-> "Title: 'TEST_GAS - My Document' -> Always fails with gas error"],
     random_behavior |->
        "No patterns -> Deterministic 95% success based on artifact ID"]

\* GET /test-patterns is served.
TestPatternsRun ==
    /\ unit = UnitIdle
    /\ unit' = [fn |-> "get_test_patterns", result |-> get_test_patterns]
    /\ UNCHANGED pipeline

\* A dict with no key, and two dicts with different keys as one dict.
EmptyDict == [key \in {} |-> Absent]
Merge(d1, d2) ==
    [key \in DOMAIN d1 \cup DOMAIN d2 |->
        IF key \in DOMAIN d1 THEN d1[key] ELSE d2[key]]

\* The titles sent: none, '', up to two words, and null.
Titles ==
    {<<>>, Null} \cup {<<w>> : w \in TitleWords}
    \cup {<<w1, w2>> : w1 \in TitleWords, w2 \in TitleWords}
Descriptions == {<<>>, Null, <<"ok">>, <<"test_gas">>, <<"Should_Pass">>}
KeywordLists ==
    {<<>>, Null, <<"bio">>, <<"Test-Fail">>, <<"Force-Success">>,
     <<"bio", "test-gas">>, <<"test-network", "force-fail">>}
DataArtifactIds == {"", "a1", "a28", "a65"}

\* The data of a submission request: each of title, description, keywords
\* and artifactId present or not.
ArtifactDatas ==
    {Merge(Merge(t, d), Merge(k, a)) :
        t \in {EmptyDict} \cup {[title |-> v] : v \in Titles},
        d \in {EmptyDict} \cup {[description |-> v] : v \in Descriptions},
        k \in {EmptyDict} \cup {[keywords |-> v] : v \in KeywordLists},
        a \in {EmptyDict} \cup {[artifactId |-> v] : v \in DataArtifactIds}}

\* The request with the artifactId alone as its data.
submission_request_without_data(artifact_id, artifact_data) ==
    ArtifactSubmissionRequest(artifact_id, [artifactId |-> artifact_id], Now)

\* The request process_artifact_submission hands to the Peer Client, which
\* posts it as it is: the artifactId, the whole creation message as data,
\* and the time of the call.
submission_request(artifact_id, artifact_data) ==
    ArtifactSubmissionRequest(artifact_id, artifact_data, Now)

\* What the POST of the Peer Client meets when the peer is the mock peer and
\* the network delivers: the answer of the handler as a JSON object, its
\* unset fields null.
mock_peer_http(request) ==
    LET response == peer_submit_artifact(request)
    IN  HttpResponse(response_status(response), "object", TRUE,
                     response.success, response.txId, response.peerId,
                     response.error)

\* The creation messages of the round trips: an artifactId, a title, and a
\* description and keywords or none.
CreationMessages ==
    {Merge(Merge([artifactId |-> a], [title |-> t]), Merge(d, k)) :
        a \in {"a1", "a28", "a65"},
        t \in {<<"ok">>, <<"please", "test_gas", "now">>},
        d \in {EmptyDict} \cup {[description |-> v] : v \in Descriptions},
        k \in {EmptyDict} \cup {[keywords |-> v] : v \in KeywordLists}}

\* A creation message goes through the Worker's callback with the mock peer
\* behind the Peer Client and a broker that takes the publish.
RoundTripRun ==
    /\ unit = UnitIdle
    /\ \E message \in CreationMessages :
        LET request == submission_request(message.artifactId, message)
            r == worker_callback(CreatedBody("object", message.artifactId),
                                 PeerStep(FALSE, mock_peer_http(request)),
                                 [n \in 1..2 |-> TRUE])
        IN  unit' = [fn |-> "round_trip", message |-> message,
                     request |-> request, effects |-> r.effects,
                     published |-> Published(r.effects)]
    /\ UNCHANGED pipeline

\* The timestamp a client writes into a request.
Timestamp == "2023-01-01T12:00:00Z"

\* The mock peer receives a submission request.
PeerSubmitRun ==
    /\ unit = UnitIdle
    /\ \E a \in {"", "a1", "a28"}, data \in ArtifactDatas :
        LET request == ArtifactSubmissionRequest(a, data, Timestamp)
        IN  unit' = [fn |-> "peer_submit_artifact", request |-> request,
                     status |-> response_status(peer_submit_artifact(request)),
                     response |-> peer_submit_artifact(request)]
    /\ UNCHANGED pipeline

\* The data of the requests of two calls that are compared: accepted and
\* refused ones, with and without an artifactId of their own.
PairDatas ==
    {EmptyDict,
     [title |-> <<"ok">>, artifactId |-> "a1"],
     [title |-> <<"ok">>, artifactId |-> "a65"],
     [title |-> <<"test_success">>, artifactId |-> "a65"],
     [title |-> <<"TEST_GAS">>, artifactId |-> "a1"],
     [keywords |-> <<"Force-Success">>, description |-> <<"ok">>],
     [title |-> <<>>, artifactId |-> "a28"],
     [title |-> Null, artifactId |-> "a1"]}

\* The mock peer receives two submission requests, one after the other.
PeerSubmitTwiceRun ==
    /\ unit = UnitIdle
    /\ \E a1 \in {"a1", "a28"}, a2 \in {"a1", "a28"},
          d1 \in PairDatas, d2 \in PairDatas,
          t1 \in {Timestamp, Now}, t2 \in {Timestamp, Now} :
        LET first == ArtifactSubmissionRequest(a1, d1, t1)
            second == ArtifactSubmissionRequest(a2, d2, t2)
        IN  unit' = [fn |-> "peer_submit_artifact_twice",
                     first |-> [request |-> first,
                                response |-> peer_submit_artifact(first)],
                     second |-> [request |-> second,
                                 response |-> peer_submit_artifact(second)]]
    /\ UNCHANGED pipeline

\* The decoded messages validate_message is given: every field present or
\* not, and a submissionState outside the enum.
DecodedMessages ==
    {SubmittedBody("object", aid, state, at, ver, tx, peer, err) :
        aid \in {Absent, "a1"},
        state \in {Absent, "SUCCESS", "FAILED", "PENDING", "INVALID_STATE"},
        at \in {Absent, Now}, ver \in {Absent, "v1"},
        tx \in {Absent, "tx"}, peer \in {Absent, PEER_ID},
        err \in {Absent, ErrGas}}

\* validate_message is called with a decoded message.
ValidateRun ==
    /\ unit = UnitIdle
    /\ \E message \in DecodedMessages :
        unit' = [fn |-> "validate_message", message |-> message,
                 result |-> validate_message(message)]
    /\ UNCHANGED pipeline

\* The same body is delivered to the Listener's callback twice (a duplicate
\* delivery); each handling's PATCH meets an outcome of its own.
ListenerTwiceRun ==
    /\ unit = UnitIdle
    /\ \E body \in DecodedMessages \cup WorkerEvents, upd1 \in UpdateOutcomes,
          upd2 \in UpdateOutcomes :
        unit' = [fn |-> "listener_callback_twice", body |-> body,
                 upd1 |-> upd1, upd2 |-> upd2,
                 first |-> PatchRequests(listener_callback(body, upd1).effects),
                 second |-> PatchRequests(listener_callback(body, upd2).effects)]
    /\ UNCHANGED pipeline

RECURSIVE ListenerRequests(_, _)
\* The PATCH requests of the Listener's callback run on each of the events,
\* in their order, each PATCH meeting upd.
ListenerRequests(events, upd) ==
    IF events = <<>> THEN <<>>
    ELSE PatchRequests(listener_callback(Head(events), upd).effects)
         \o ListenerRequests(Tail(events), upd)

\* A creation message goes through the Worker's callback, the mock peer
\* behind the Peer Client or a Peer Client that raises, with every outcome
\* of the publishes; what was published goes through the Listener's callback.
PipelineRun ==
    /\ unit = UnitIdle
    /\ \E message \in CreationMessages, raises \in {Absent} \cup ExcTexts,
          pubOk \in [1..2 -> BOOLEAN], upd \in {"ok", "timeout"} :
        LET request == submission_request(message.artifactId, message)
            peer == IF raises = Absent
                    THEN PeerStep(FALSE, mock_peer_http(request))
                    ELSE PeerRaise(raises)
            r == worker_callback(CreatedBody("object", message.artifactId),
                                 peer, pubOk)
        IN  unit' = [fn |-> "pipeline", message |-> message,
                     request |-> request, effects |-> r.effects,
                     published |-> Published(r.effects),
                     updates |-> ListenerRequests(Published(r.effects), upd)]
    /\ UNCHANGED pipeline

UnitNext ==
    \/ PublishRun
    \/ SubmitArtifactRun
    \/ HealthCheckRun
    \/ PeerSubmitRun
    \/ PeerSubmitTwiceRun
    \/ RoundTripRun
    \/ ValidateRun
    \/ TestPatternsRun
    \/ ListenerTwiceRun
    \/ PipelineRun

\* The functions of the pipeline's components, each run on its own inputs:
\* a behaviour is one call of one function, recorded in unit.
UnitSpec == Init /\ [][UnitNext]_vars

\* ------------------------------------------------ start_rabbitmq_consumer
max_retries == 30

\* The loop going on while retry_count is at most max_retries.
may_retry_inclusive(connection, retry_count) ==
    ~connection /\ retry_count <= max_retries

\* while not connection and retry_count < max_retries
may_retry(connection, retry_count) ==
    ~connection /\ retry_count < max_retries

\* The channel set up without basic_qos.
channel_setup_no_qos(component) ==
    (IF component = "worker"
     THEN <<"queue_declare", "queue_declare">> ELSE <<"queue_declare">>)
    \o <<"basic_consume", "start_consuming">>

\* The calls on the channel once connected, in program order: the Worker
\* declares both queues, the Listener the submitted queue.
channel_setup(component) ==
    (IF component = "worker"
     THEN <<"queue_declare", "queue_declare">> ELSE <<"queue_declare">>)
    \o <<"basic_qos", "basic_consume", "start_consuming">>

\* start_rabbitmq_consumer is called in the Worker or in the Listener.
\* attempts counts the pika.BlockingConnection calls, waits the
\* time.sleep(5) calls.
ConsumerStart ==
    /\ unit = UnitIdle
    /\ \E component \in {"worker", "listener"} :
        unit' = [fn |-> "start_rabbitmq_consumer", component |-> component,
                 phase |-> "connecting", connection |-> FALSE,
                 retry_count |-> 0, attempts |-> 0, waits |-> 0,
                 calls |-> <<>>, open |-> FALSE, end |-> "none",
                 finally |-> <<>>]
    /\ UNCHANGED pipeline

\* One turn of the loop: the connection is made, or AMQPConnectionError is
\* caught, retry_count goes up and the function sleeps.
ConnectAttempt ==
    /\ unit.fn = "start_rabbitmq_consumer"
    /\ unit.phase = "connecting"
    /\ may_retry(unit.connection, unit.retry_count)
    /\ \E connected \in BOOLEAN :
        unit' = IF connected
                THEN [unit EXCEPT !.attempts = @ + 1, !.connection = TRUE,
                                  !.open = TRUE]
                ELSE [unit EXCEPT !.attempts = @ + 1, !.retry_count = @ + 1,
                                  !.waits = @ + 1]
    /\ UNCHANGED pipeline

\* After the loop: `if not connection: return`, else the channel is set up
\* and start_consuming blocks.
ConnectDone ==
    /\ unit.fn = "start_rabbitmq_consumer"
    /\ unit.phase = "connecting"
    /\ ~may_retry(unit.connection, unit.retry_count)
    /\ unit' = IF ~unit.connection
               THEN [unit EXCEPT !.phase = "returned"]
               ELSE [unit EXCEPT !.phase = "consuming",
                                 !.calls = channel_setup(unit.component)]
    /\ UNCHANGED pipeline

\* The finally clause with no connection.close().
consumer_finally_leaves_open(connection, is_closed) == <<>>

\* finally: if connection and not connection.is_closed: connection.close()
consumer_finally(connection, is_closed) ==
    IF connection /\ ~is_closed THEN <<"connection.close">> ELSE <<>>

\* How channel.start_consuming() ends: it returns, KeyboardInterrupt leaves
\* it, or another exception does.
ConsumingEnds == {"return", "interrupt", "error"}

\* start_consuming ends, with the connection still open or lost by then:
\* KeyboardInterrupt calls channel.stop_consuming(), another exception is
\* logged, the finally clause runs and the function returns.
ConsumingEnd ==
    /\ unit.fn = "start_rabbitmq_consumer"
    /\ unit.phase = "consuming"
    /\ \E end \in ConsumingEnds, is_closed \in BOOLEAN :
        LET finally == consumer_finally(unit.connection, is_closed)
        IN  unit' = [unit EXCEPT
                        !.phase = "ended", !.end = end,
                        !.calls = @ \o (IF end = "interrupt"
                                        THEN <<"stop_consuming">> ELSE <<>>),
                        !.finally = finally,
                        !.open = ~is_closed /\ finally = <<>>]
    /\ UNCHANGED pipeline

\* The prefetch count in force on a channel when its consumer is
\* registered: the 1 of basic_qos(prefetch_count=1) if that call came before
\* basic_consume, else 0, the broker's default, which sets no limit.
prefetch_count(calls) ==
    IF \E i \in 1..Len(calls), j \in 1..Len(calls) :
           i < j /\ calls[i] = "basic_qos" /\ calls[j] = "basic_consume"
    THEN 1 ELSE 0

\* The instances of one component that consume from the same queue.
Instances == {1, 2}

\* How the callback of a component ends a delivery: "raise" when an
\* exception leaves it, else the name of its last call on the channel.
CallbackEnds(component) ==
    IF component = "worker"
    THEN {IF worker_callback(body, peer, pubOk).raised THEN "raise"
          ELSE Last(worker_callback(body, peer, pubOk).effects).op :
             body \in CreatedBodies, peer \in PeerSteps,
             pubOk \in [1..2 -> BOOLEAN]}
    ELSE {IF listener_callback(body, upd).raised THEN "raise"
          ELSE Last(listener_callback(body, upd).effects).op :
             body \in InjectedBodies \cup WorkerEvents, upd \in UpdateOutcomes}

\* Instances of one component have set up their channels and block in
\* start_consuming on a queue that holds some messages.
CompeteStart ==
    /\ unit = UnitIdle
    /\ \E component \in {"worker", "listener"}, ready \in 0..MaxBacklog :
        unit' = [fn |-> "competing_consumers", component |-> component,
                 ready |-> ready,
                 prefetch |-> [i \in Instances |->
                                 prefetch_count(channel_setup(component))],
                 consuming |-> [i \in Instances |-> TRUE],
                 unacked |-> [i \in Instances |-> 0]]
    /\ UNCHANGED pipeline

\* The broker sends a ready message to a consumer whose unacknowledged
\* deliveries are below its prefetch count (0: no limit).
BrokerDeliver ==
    /\ unit.fn = "competing_consumers"
    /\ unit.ready > 0
    /\ \E i \in Instances :
        /\ unit.consuming[i]
        /\ unit.prefetch[i] = 0 \/ unit.unacked[i] < unit.prefetch[i]
        /\ unit' = [unit EXCEPT !.ready = @ - 1, !.unacked[i] = @ + 1]
    /\ UNCHANGED pipeline

\* The callback of an instance comes to the end of a delivery: its
\* basic_ack or basic_nack(requeue=False) settles it; an exception that
\* leaves it ends start_consuming, the connection is closed and the
\* instance's unacknowledged deliveries are ready again.
CallbackEnd ==
    /\ unit.fn = "competing_consumers"
    /\ \E i \in Instances, end \in CallbackEnds(unit.component) :
        /\ unit.consuming[i]
        /\ unit.unacked[i] > 0
        /\ unit' = IF end = "raise"
                   THEN [unit EXCEPT !.consuming[i] = FALSE,
                                     !.ready = @ + unit.unacked[i],
                                     !.unacked[i] = 0]
                   ELSE [unit EXCEPT !.unacked[i] = @ - 1]
    /\ UNCHANGED pipeline

ConsumerNext ==
    \/ ConsumerStart
    \/ ConnectAttempt
    \/ ConnectDone
    \/ ConsumingEnd
    \/ CompeteStart
    \/ BrokerDeliver
    \/ CallbackEnd

\* One call of start_rabbitmq_consumer, step by step, and instances that
\* have made it consuming from one queue.
ConsumerSpec == Init /\ [][ConsumerNext]_vars

\* ============================================================ properties
\* The names of the external calls of a run, in program order.
Ops(effects) == [i \in 1..Len(effects) |-> effects[i].op]

IsPublish(e) == e.op = "basic_publish"

IsSettlement(e) == e.op \in {"basic_ack", "basic_nack"}

\* The basic_publish attempts of a run, in program order.
Publishes(effects) == SelectSeq(effects, IsPublish)

\* The Worker's callback validated the body: JSON object with an artifactId.
Accepted(run) ==
    /\ run.delivered
    /\ run.body.kind = "object"
    /\ Truthy(run.body.artifactId)

\* The Listener's callback got a schema-valid event.
ValidDelivery(run) ==
    /\ run.delivered
    /\ validate_message(run.body)

\* ------------------------------------------------------------------- C1
\* C1 as stated: for every accepted creation message the Worker's callback
\* publishes exactly one submitted event, also when a publish attempt fails.
C1_Original ==
    Accepted(wRun) => Len(Published(wRun.effects)) = 1

\* C1 amended: the callback makes one or two publish attempts and publishes
\* at most one event, which carries the delivery's artifactId: exactly one
\* when its last attempt returns, none when its last attempt raises, and
\* then the creation message is rejected without requeue.
C1_Amended ==
    Accepted(wRun) =>
        LET attempts == Publishes(wRun.effects)
            events == Published(wRun.effects)
        IN  /\ Len(attempts) \in {1, 2}
            /\ Len(events) <= 1
            /\ (Len(events) = 1) <=> Last(attempts).ok
            /\ \A i \in 1..Len(events) :
                  events[i].artifactId = wRun.body.artifactId
            /\ Len(events) = 0 => Last(wRun.effects) = basic_nack(FALSE)

\* A first publish that raised, followed by a publish that returned.
C1_Witness ==
    /\ Accepted(wRun)
    /\ Len(Publishes(wRun.effects)) = 2
    /\ ~Publishes(wRun.effects)[1].ok
    /\ Len(Published(wRun.effects)) = 1

\* ------------------------------------------------------------------- C4
\* C4 as stated: whenever a publish of the submitted event succeeded, the
\* Worker acknowledges the creation message.
C4_Original ==
    (Accepted(wRun) /\ Len(Published(wRun.effects)) >= 1)
        => Last(wRun.effects).op = "basic_ack"

\* C4 amended: the Worker acknowledges exactly when the peer step returned an
\* outcome (success or failure) and the publish of that outcome returned; in
\* every other case, also when the synthesized failure event was published,
\* it rejects without requeue.
C4_Amended ==
    Accepted(wRun) =>
        LET e == wRun.effects
            firstTry == e[1].op = "submit_artifact" /\ e[1].ok
                        /\ IsPublish(e[2]) /\ e[2].ok
        IN  /\ Len(e) >= 3
            /\ firstTry => Last(e) = basic_ack
            /\ ~firstTry => Last(e) = basic_nack(FALSE)

\* A business failure (the peer said no) published and acknowledged.
C4_Witness ==
    /\ Accepted(wRun)
    /\ Last(wRun.effects).op = "basic_ack"
    /\ Len(Published(wRun.effects)) = 1
    /\ Published(wRun.effects)[1].submissionState = "FAILED"
    /\ Published(wRun.effects)[1].error = ErrGas

\* ------------------------------------------------------------------- C5
\* C5: every basic_nack either callback issues has requeue=False, and the
\* broker does not put a message back whose run ended with a settlement.
C5_NoRequeue ==
    /\ \A i \in 1..Len(wRun.effects) :
          wRun.effects[i].op = "basic_nack" => ~wRun.effects[i].requeue
    /\ \A i \in 1..Len(lRun.effects) :
          lRun.effects[i].op = "basic_nack" => ~lRun.effects[i].requeue
    /\ (wRun.delivered /\ ~wRun.raised)
          => Settle(<<wRun.body>>, wRun.effects) = <<>>
    /\ (lRun.delivered /\ ~lRun.raised)
          => Settle(<<lRun.body>>, lRun.effects) = <<>>

\* The Listener rejected a schema-valid event after a failed update.
C5_Witness ==
    /\ ValidDelivery(lRun)
    /\ lRun.upd = "timeout"
    /\ Last(lRun.effects).op = "basic_nack"

\* ------------------------------------------------------------------- C6
\* C6 as stated: whatever the body, each callback issues exactly one
\* basic_ack or basic_nack and no exception leaves it.
C6_Claim ==
    /\ wRun.delivered =>
          (~wRun.raised /\ Len(SelectSeq(wRun.effects, IsSettlement)) = 1)
    /\ lRun.delivered =>
          (~lRun.raised /\ Len(SelectSeq(lRun.effects, IsSettlement)) = 1)

\* ------------------------------------------------------------------- C7
\* C7 as stated: a body that is not valid JSON, or a JSON object without
\* artifactId, is rejected with basic_nack(requeue=False), with no Peer
\* Client call and no publish.
C7_Claim ==
    (/\ wRun.delivered
     /\ \/ wRun.body.kind \in {"notutf8", "badjson"}
        \/ wRun.body.kind = "object" /\ wRun.body.artifactId = Absent)
        => wRun.effects = <<basic_nack(FALSE)>>

\* ------------------------------------------------------------------- C8
\* C8 as stated: a body that is malformed JSON, or a decoded message that
\* fails schema validation, is rejected with basic_nack(requeue=False), with
\* no update call.
C8_Claim ==
    (/\ lRun.delivered
     /\ \/ lRun.body.kind \in {"notutf8", "badjson"}
        \/ lRun.body.kind \in {"object", "nonobject"} /\ ~validate_message(lRun.body))
        => lRun.effects = <<basic_nack(FALSE)>>

C10_UpdateSuccess ==
    (ValidDelivery(lRun) /\ lRun.upd = "ok")
        => /\ Ops(lRun.effects) = <<"requests.patch", "basic_ack">>
           /\ lRun.effects[1].ok
           /\ lRun.effects[1].key = lRun.body.artifactId

\* A PENDING event updated and acknowledged.
C10_Witness ==
    /\ ValidDelivery(lRun)
    /\ lRun.body.submissionState = "PENDING"
    /\ lRun.upd = "ok"
    /\ Last(lRun.effects) = basic_ack

\* ------------------------------------------------------------------- C2
\* Every creation event for artifactId a that entered the queue has been
\* handled to its end by the Worker's callback.
Handled(a) ==
    /\ entered[a] > 0
    /\ \A i \in 1..Len(createdQ) : createdQ[i].artifactId # a

\* A terminal submitted event for artifactId a is on the submitted queue.
OnSubmittedQueue(a) ==
    \E i \in 1..Len(submittedQ) : Terminal(submittedQ[i], a)

Quiescent == createdQ = <<>> /\ submittedQ = <<>>

\* C3 as stated: once nothing is left to handle, every artifactId whose
\* creation event entered the queue has exactly one successful status update.
C3_Original ==
    Quiescent => \A a \in ArtifactIds : entered[a] > 0 => sorOk[a] = 1

\* C3 amended: a step adds at most one successful status update, and only a
\* delivery of a schema-valid submitted event to the Listener adds one, for
\* that event's artifactId; per artifact the total may be zero or exceed one.
C3_Amended ==
    [][\A a \in ArtifactIds :
          sorOk'[a] # sorOk[a] =>
              /\ sorOk'[a] = sorOk[a] + 1
              /\ lRunning
              /\ submittedQ # <<>>
              /\ validate_message(Head(submittedQ))
              /\ Head(submittedQ).artifactId = a]_vars

\* One creation event for a1, redelivered after the Worker was terminated
\* between publish and ack, gave two successful updates.
C3_Witness ==
    /\ entered["a1"] = 1
    /\ sorOk["a1"] = 2

\* ------------------------------------------------------------------ C11
\* C11: the event publish_artifact_submitted builds has submissionState
\* SUCCESS iff the outcome's success flag is true and FAILED otherwise; it
\* has blockchainTxId and peerId only when the outcome has them (and then
\* the outcome's values), error only when the outcome failed (and then the
\* outcome's error); it always has the artifactId given, a submittedAt and
\* version "v1".
C11_PublishedEvent ==
    unit.fn = "publish_artifact_submitted" =>
        LET o == unit.submission_result
            m == unit.call.event
        IN  /\ unit.call.op = "basic_publish"
            /\ m.kind = "object"
            /\ m.submissionState = (IF o.success THEN "SUCCESS" ELSE "FAILED")
            /\ m.blockchainTxId # Absent => m.blockchainTxId = o.txId
            /\ m.peerId # Absent => m.peerId = o.peerId
            /\ m.error # Absent => (~o.success /\ m.error = o.error)
            /\ m.artifactId = unit.artifact_id
            /\ m.submittedAt # Absent
            /\ m.version = "v1"

\* A failure outcome that carries a txId, a peerId and an error: the event
\* has the error and the peerId and no blockchainTxId.
C11_Witness ==
    /\ unit.fn = "publish_artifact_submitted"
    /\ ~unit.submission_result.success
    /\ unit.submission_result.txId = "tx"
    /\ unit.call.event.error = ErrGas
    /\ unit.call.event.peerId = PEER_ID
    /\ unit.call.event.blockchainTxId = Absent

\* ------------------------------------------------------------------ C12
\* C12 as stated: every event the Worker publishes, for any outcome the Peer
\* Client returns, has blockchainTxId if and only if its submissionState is
\* SUCCESS.
C12_Claim ==
    \A i \in 1..Len(Published(wRun.effects)) :
        LET m == Published(wRun.effects)[i]
        IN  (m.blockchainTxId # Absent) <=> (m.submissionState = "SUCCESS")

\* ------------------------------------------------------------------ C13
\* C13 as stated: when the peer step raises an unexpected exception, the
\* Worker publishes a FAILED event whose error carries the exception's
\* description, then rejects the creation message without requeue, and no
\* exception leaves the callback.
C13_Original ==
    (Accepted(wRun) /\ wRun.peer.raises) =>
        /\ Len(Published(wRun.effects)) = 1
        /\ Published(wRun.effects)[1].submissionState = "FAILED"
        /\ Published(wRun.effects)[1].error = ProcessingFailed(wRun.peer.exc)
        /\ Last(wRun.effects) = basic_nack(FALSE)
        /\ ~wRun.raised

\* C13 amended: when the peer step raises, the Worker makes one publish
\* attempt, of a FAILED event for the delivery's artifactId whose error
\* carries the exception's description; the event is published when that
\* attempt returns and no event is published when it raises; in both cases
\* the Worker then rejects the creation message without requeue and no
\* exception leaves the callback.
C13_Amended ==
    (Accepted(wRun) /\ wRun.peer.raises) =>
        LET e == wRun.effects
        IN  /\ Ops(e) = <<"submit_artifact", "basic_publish", "basic_nack">>
            /\ ~e[1].ok
            /\ e[2].event.submissionState = "FAILED"
            /\ e[2].event.error = ProcessingFailed(wRun.peer.exc)
            /\ e[2].event.artifactId = wRun.body.artifactId
            /\ Published(e) = (IF e[2].ok THEN <<e[2].event>> ELSE <<>>)
            /\ e[3] = basic_nack(FALSE)
            /\ ~wRun.raised

\* The peer step raised "boom" and the failure event was published.
C13_Witness ==
    /\ Accepted(wRun)
    /\ wRun.peer.raises
    /\ wRun.peer.exc = "boom"
    /\ Len(Published(wRun.effects)) = 1
    /\ Published(wRun.effects)[1].error = ProcessingFailed("boom")

\* ------------------------------------------------------------------ C14
\* The peer call of the run ended in a timeout or a connection failure.
PeerUnreachable(run) ==
    /\ Accepted(run)
    /\ ~run.peer.raises
    /\ run.peer.http.kind \in {"timeout", "connection_error"}

\* The error text the Peer Client gives for a transport fault.
TransportError(kind) == IF kind = "timeout" THEN ErrTimeout ELSE ErrConnection

\* C14 as stated: a timeout or connection failure of the peer call makes the
\* Worker publish a FAILED event whose error names the fault, acknowledge the
\* creation message and go on consuming.
C14_Original ==
    PeerUnreachable(wRun) =>
        /\ Len(Published(wRun.effects)) = 1
        /\ Published(wRun.effects)[1].submissionState = "FAILED"
        /\ Published(wRun.effects)[1].error = TransportError(wRun.peer.http.kind)
        /\ Last(wRun.effects) = basic_ack
        /\ ~wRun.raised

\* C14 amended: the peer call returns a failure outcome (it does not raise)
\* and the Worker's first publish attempt is of a FAILED event whose error
\* names the timeout or the connection error; when that attempt returns,
\* the event is published and the creation message acknowledged; when it
\* raises, the Worker attempts to publish the synthesized failure event and
\* rejects the creation message without requeue. No exception leaves the
\* callback in any of these runs.
C14_Amended ==
    PeerUnreachable(wRun) =>
        LET e == wRun.effects
        IN  /\ Len(e) >= 3
            /\ e[1].op = "submit_artifact" /\ e[1].ok /\ ~e[1].success
            /\ IsPublish(e[2])
            /\ e[2].event.submissionState = "FAILED"
            /\ e[2].event.error = TransportError(wRun.peer.http.kind)
            /\ e[2].ok => /\ Len(e) = 3
                           /\ e[3] = basic_ack
                           /\ Published(e) = <<e[2].event>>
            /\ ~e[2].ok => /\ Len(e) = 4
                            /\ IsPublish(e[3])
                            /\ e[3].event.error = ProcessingFailed(PublishExc)
                            /\ e[4] = basic_nack(FALSE)
            /\ ~wRun.raised

\* A connection failure published as a FAILED event and acknowledged.
C14_Witness ==
    /\ PeerUnreachable(wRun)
    /\ wRun.peer.http.kind = "connection_error"
    /\ Len(Published(wRun.effects)) = 1
    /\ Published(wRun.effects)[1].error = ErrConnection
    /\ Last(wRun.effects) = basic_ack

\* ------------------------------------------------------------------ C15
\* The behaviours the claims call failure modes of the HTTP call. A status
\* is 2xx when it is in 200..299.
Is2xx(status) == status >= 200 /\ status < 300

WellFormed(http) ==
    http.kind = "response" /\ http.shape = "object" /\ http.hasSuccess

Taxonomy(http, httpError) ==
    IF http.kind = "timeout" THEN FailureOutcome(ErrTimeout)
    ELSE IF http.kind = "connection_error" THEN FailureOutcome(ErrConnection)
    ELSE IF http.kind # "response" THEN FailureOutcome(ErrUnexpected)
    ELSE IF httpError THEN FailureOutcome(ErrHttp(http.status))
    ELSE IF ~WellFormed(http) THEN FailureOutcome(ErrInvalid)
    ELSE Outcome(http.success, http.txId, http.peerId, http.error)

IsSubmit(e) == e.op = "submit_artifact"

\* C17: for a validated creation message the Worker calls submit_artifact
\* exactly once, before anything else, and the call issues exactly one HTTP
\* POST, whatever the outcome (timeout, connection error, HTTP error,
\* invalid body): no second POST for the same delivery.
C17_OnePost ==
    Accepted(wRun) =>
        /\ Len(SelectSeq(wRun.effects, IsSubmit)) = 1
        /\ IsSubmit(wRun.effects[1])
        /\ Len(wRun.requests) <= 1
        /\ ~wRun.peer.raises =>
              /\ Len(wRun.requests) = 1
              /\ wRun.requests[1].op = "session.post"

\* A delivery whose POST timed out and whose first publish raised: still one
\* call and one POST.
C17_Witness ==
    /\ Accepted(wRun)
    /\ wRun.peer.http.kind = "timeout"
    /\ Len(Publishes(wRun.effects)) = 2
    /\ Len(wRun.requests) = 1
    /\ ~wRun.requests[1].ok

MarkersIn(text) ==
    {i \in 1..Len(failure_patterns) :
        Contains(lower_all(text), failure_patterns[i].pattern)}

\* The data names a success pattern in its title or description, or a
\* success keyword among its keywords.
SuccessForced(data) ==
    \/ \E p \in 1..Len(success_patterns) :
        \/ Contains(lower_all(Get(data, "title", <<>>)), success_patterns[p])
        \/ Contains(lower_all(Get(data, "description", <<>>)),
                    success_patterns[p])
    \/ \E k \in 1..Len(success_keywords) :
        \E j \in 1..Len(Get(data, "keywords", <<>>)) :
            lower(Get(data, "keywords", <<>>)[j]) = success_keywords[k]

C20_Claim ==
    unit.fn = "peer_submit_artifact" =>
        (MarkersIn(Get(unit.request.data, "title", <<>>)) = {}
            => unit.response.success)

C22_SameTxId ==
    unit.fn = "peer_submit_artifact_twice" =>
        (/\ unit.first.request.artifactId = unit.second.request.artifactId
         /\ unit.first.response.success
         /\ unit.second.response.success
         => unit.first.response.txId = unit.second.response.txId)

\* Two submissions of one artifactId were accepted whose data name different
\* artifactIds and titles and whose timestamps differ.
C22_Witness ==
    /\ unit.fn = "peer_submit_artifact_twice"
    /\ unit.first.request.artifactId = "a28"
    /\ unit.second.request.artifactId = "a28"
    /\ unit.first.request.data = [title |-> <<"ok">>, artifactId |-> "a1"]
    /\ unit.second.request.data =
         [title |-> <<"test_success">>, artifactId |-> "a65"]
    /\ unit.first.request.timestamp # unit.second.request.timestamp
    /\ unit.first.response.success
    /\ unit.second.response.success
    /\ unit.first.response.txId = tx_id("a28")

\* C23: the mock peer answers every submission request with HTTP status
\* 200, an accepted and a refused one alike, and an error raised while
\* deciding yields a body with success=false and an error text.
C23_AlwaysAnswers ==
    unit.fn = "peer_submit_artifact" =>
        /\ unit.status = 200
        /\ (determine_success_from_artifact_raises(unit.request.data) # Absent
             => /\ ~unit.response.success
                /\ unit.response.error # Absent)

\* The decision raised on a null title and the answer was a 200 with
\* success=false and the text of the error.
C23_Witness ==
    /\ unit.fn = "peer_submit_artifact"
    /\ "title" \in DOMAIN unit.request.data
    /\ unit.request.data.title = Null
    /\ unit.status = 200
    /\ ~unit.response.success
    /\ unit.response.error =
         "Unexpected error during submission: 'NoneType' object has no attribute 'lower'"

\* C24 as stated: every response body has success=true with a txId, the
\* simulated peerId and no error, or success=false with an error, the
\* simulated peerId and no txId.
C24_Claim ==
    unit.fn = "peer_submit_artifact" =>
        \/ /\ unit.response.success
           /\ unit.response.txId # Absent
           /\ unit.response.peerId = PEER_ID
           /\ unit.response.error = Absent
        \/ /\ ~unit.response.success
           /\ unit.response.error # Absent
           /\ unit.response.peerId = PEER_ID
           /\ unit.response.txId = Absent

\* C25 as stated: a creation message whose title is "ok", whatever its
\* artifactId, goes round to one published event with submissionState
\* SUCCESS, a blockchainTxId and no error.
C25_Claim ==
    (unit.fn = "round_trip" /\ unit.message.title = <<"ok">>) =>
        /\ Len(unit.published) = 1
        /\ unit.published[1].submissionState = "SUCCESS"
        /\ unit.published[1].blockchainTxId # Absent
        /\ unit.published[1].error = Absent

C27_PatchBody ==
    (lRun.completed /\ lRun.body.kind = "object" /\ validate_message(lRun.body)) =>
        /\ \E i \in 1..Len(lRun.effects) : lRun.effects[i].op = "requests.patch"
        /\ \A i \in 1..Len(lRun.effects) :
            lRun.effects[i].op = "requests.patch" =>
                /\ lRun.effects[i].event.submissionState = lRun.body.submissionState
                /\ lRun.effects[i].event.submittedAt = lRun.body.submittedAt
                /\ lRun.effects[i].event.blockchainTxId = lRun.body.blockchainTxId
                /\ lRun.effects[i].event.peerId = lRun.body.peerId
                /\ lRun.effects[i].event.artifactId = Absent
                /\ lRun.effects[i].event.error = Absent
                /\ lRun.effects[i].event.version = Absent

\* The Listener updated a FAILED event that holds a peerId and an error and
\* no blockchainTxId: the PATCH holds the peerId and neither of the others.
C27_Witness ==
    /\ lRun.completed
    /\ validate_message(lRun.body)
    /\ lRun.body.submissionState = "FAILED"
    /\ lRun.body.peerId = PEER_ID
    /\ lRun.body.error = ErrGas
    /\ lRun.body.blockchainTxId = Absent
    /\ Len(lRun.effects) > 0
    /\ lRun.effects[1].op = "requests.patch"
    /\ lRun.effects[1].event.peerId = PEER_ID
    /\ lRun.effects[1].event.error = Absent

\* C28: validate_message accepts a decoded message exactly when it holds
\* artifactId, submissionState, submittedAt and version and its
\* submissionState is SUCCESS, FAILED or PENDING; the verdict is that of the
\* same message without blockchainTxId, peerId and error; and the empty
\* object is rejected.
C28_Validation ==
    unit.fn = "validate_message" =>
        LET message == unit.message
            stripped == [message EXCEPT !.blockchainTxId = Absent,
                                        !.peerId = Absent, !.error = Absent]
        IN  /\ unit.result <=>
                /\ message.artifactId # Absent
                /\ message.submissionState # Absent
                /\ message.submittedAt # Absent
                /\ message.version # Absent
                /\ message.submissionState \in {"SUCCESS", "FAILED", "PENDING"}
            /\ unit.result = validate_message(stripped)
            /\ (message = [NoEvent EXCEPT !.kind = "object"]) => ~unit.result

\* A SUCCESS message with the four required fields and none of the optional
\* ones was accepted.
C28_Witness ==
    /\ unit.fn = "validate_message"
    /\ unit.message =
         SubmittedBody("object", "a1", "SUCCESS", Now, "v1", Absent, Absent, Absent)
    /\ unit.result

\* C29: start_rabbitmq_consumer makes at most 30 connection attempts; while
\* it has no connection every attempt was followed by a wait; once an
\* attempt succeeds there has been one wait fewer than attempts and
\* consumption starts with no further attempt; and it returns without a
\* connection only after exactly 30 attempts and 30 waits, with no queue
\* declared and nothing consumed.
C29_ConnectionRetry ==
    unit.fn = "start_rabbitmq_consumer" =>
        /\ unit.attempts <= 30
        /\ ~unit.connection => unit.waits = unit.attempts
        /\ unit.connection =>
            /\ unit.attempts >= 1
            /\ unit.waits = unit.attempts - 1
        /\ unit.phase = "consuming" =>
            /\ unit.connection
            /\ unit.calls[Len(unit.calls)] = "start_consuming"
        /\ unit.phase = "returned" =>
            /\ ~unit.connection
            /\ unit.attempts = 30
            /\ unit.waits = 30
            /\ unit.calls = <<>>

\* The Listener connected at its thirtieth attempt, after 29 waits, and
\* consumes.
C29_Witness ==
    /\ unit.fn = "start_rabbitmq_consumer"
    /\ unit.component = "listener"
    /\ unit.phase = "consuming"
    /\ unit.attempts = 30
    /\ unit.waits = 29

\* C30: a consumer that has started consuming called basic_qos before
\* basic_consume, its prefetch count is one, and each of the instances that
\* compete for a queue holds at most one delivered message that it has not
\* acknowledged.
C30_OneInFlight ==
    /\ (unit.fn = "start_rabbitmq_consumer" /\ unit.phase = "consuming") =>
        /\ prefetch_count(unit.calls) = 1
        /\ \A i \in 1..Len(unit.calls), j \in 1..Len(unit.calls) :
            (unit.calls[i] = "basic_qos" /\ unit.calls[j] \in
                {"basic_consume", "start_consuming"}) => i < j
    /\ unit.fn = "competing_consumers" =>
        \A i \in Instances :
            /\ unit.prefetch[i] = 1
            /\ unit.unacked[i] <= 1

\* Both instances hold one unacknowledged delivery each while another
\* message waits in the queue.
C30_Witness ==
    /\ unit.fn = "competing_consumers"
    /\ \A i \in Instances : unit.consuming[i] /\ unit.unacked[i] = 1
    /\ unit.ready > 0

\* C31: for every artifactId, a terminal submitted event is on the
\* submitted queue, and has been handled by the Listener, only after a peer
\* call of the Worker for that artifactId has come back.
C31_PeerCallFirst ==
    \A a \in ArtifactIds :
        /\ (\E i \in 1..Len(submittedQ) : Terminal(submittedQ[i], a)) => called[a]
        /\ delivered[a] => called[a]

\* The Listener has handled a terminal event of an artifactId, and updated
\* the system of record, after the Worker's peer call for it came back.
C31_Witness ==
    \E a \in ArtifactIds : delivered[a] /\ sorOk[a] > 0 /\ called[a]

\* C32 as stated: for a schema-valid event with artifactId A the Listener
\* sends one PATCH, to <gateway base>/<A>/status, with the headers X-API-Key
\* and X-Service-Role.
C32_Claim ==
    (lRun.completed /\ lRun.body.kind = "object" /\ validate_message(lRun.body)) =>
        LET requests == PatchRequests(lRun.effects)
        IN  /\ Len(requests) = 1
            /\ requests[1].method = "PATCH"
            /\ requests[1].url = <<API_GATEWAY_URL, lRun.body.artifactId, "status">>
            /\ {"X-API-Key", "X-Service-Role"} \subseteq requests[1].headers

\* C33 as stated: the document of GET /test-patterns has a failure_patterns
\* entry and a default_behavior entry, the one that says a submission
\* without a marker always succeeds.
C33_Claim ==
    unit.fn = "get_test_patterns" =>
        {"failure_patterns", "default_behavior"} \subseteq DOMAIN unit.result

\* C34 as stated: when the Peer Client returned an outcome with success=true
\* for a delivery, every event the Worker publishes for that delivery has
\* submissionState SUCCESS, also when the first publish attempt raises.
C34_Claim ==
    (/\ wRun.completed
     /\ ~wRun.peer.raises
     /\ submit_artifact(wRun.peer.http).success) =>
        \A i \in 1..Len(wRun.effects) :
            (wRun.effects[i].op = "basic_publish" /\ wRun.effects[i].ok) =>
                wRun.effects[i].event.submissionState = "SUCCESS"

C36_Identity ==
    unit.fn = "pipeline" =>
        /\ \A i \in 1..Len(unit.published) :
               unit.published[i].artifactId = unit.message.artifactId
        /\ unit.request.artifactId = unit.message.artifactId
        /\ unit.request.data = unit.message
        /\ \A i \in 1..Len(unit.effects) :
               unit.effects[i].op \in {"submit_artifact", "basic_publish"} =>
                   unit.effects[i].key = unit.message.artifactId
        /\ \A i \in 1..Len(unit.updates) :
               unit.updates[i].url = patch_url(unit.message.artifactId)

\* The creation message of a28, with a description and keywords, was handled
\* with a first publish that raised; the event of the second publish and the
\* PATCH that followed are a28's.
C36_Witness ==
    /\ unit.fn = "pipeline"
    /\ unit.message.artifactId = "a28"
    /\ "description" \in DOMAIN unit.message
    /\ "keywords" \in DOMAIN unit.message
    /\ Len(unit.effects) = 4
    /\ Len(unit.published) = 1
    /\ Len(unit.updates) = 1
    /\ unit.updates[1].url[2] = "a28"

\* C37: once start_rabbitmq_consumer has a connection it makes no further
\* connection attempt and does not wait again; and when start_consuming has
\* ended, by an error, an interrupt or a return, the connection is not open
\* (it was closed if it still was), the function has returned and no
\* start_consuming is in progress.
C37_StartupOnly ==
    /\ [][(unit.fn = "start_rabbitmq_consumer" /\ unit.connection) =>
             /\ unit'.fn = "start_rabbitmq_consumer"
             /\ unit'.connection
             /\ unit'.attempts = unit.attempts
             /\ unit'.waits = unit.waits]_vars
    /\ []((unit.fn = "start_rabbitmq_consumer" /\ unit.phase = "ended") =>
             /\ ~unit.open
             /\ unit.end \in ConsumingEnds
             /\ ~ENABLED ConnectAttempt
             /\ ~ENABLED ConsumingEnd)

\* The Worker's consumer connected at its third attempt, consumed, and its
\* start_consuming ended with an error while the connection was open: the
\* finally clause closed it.
C37_Witness ==
    /\ unit.fn = "start_rabbitmq_consumer"
    /\ unit.component = "worker"
    /\ unit.attempts = 3
    /\ unit.phase = "ended"
    /\ unit.end = "error"
    /\ unit.finally = <<"connection.close">>
    /\ ~unit.open

\* C38 as stated: for every schema-valid event the Listener handles, from
\* the Worker or not, each PATCH it sends has blockchainTxId in its body if
\* and only if the body's submissionState is SUCCESS.
C38_Original ==
    (unit.fn = "listener_callback_twice" /\ validate_message(unit.body)) =>
        \A i \in 1..Len(unit.first) :
            (unit.first[i].json.blockchainTxId # Absent)
                <=> (unit.first[i].json.submissionState = "SUCCESS")

\* C38 amended: for every schema-valid event the Listener handles, each PATCH
\* it sends has blockchainTxId in its body if and only if the event holds
\* one, with the event's value and the event's submissionState; so the body
\* has it if and only if its submissionState is SUCCESS exactly when that is
\* so of the event.
C38_Amended ==
    (unit.fn = "listener_callback_twice" /\ validate_message(unit.body)) =>
        \A i \in 1..Len(unit.first) :
            LET json == unit.first[i].json
            IN  /\ json.blockchainTxId = unit.body.blockchainTxId
                /\ json.submissionState = unit.body.submissionState
                /\ ((json.blockchainTxId # Absent)
                        <=> (json.submissionState = "SUCCESS"))
                   <=> ((unit.body.blockchainTxId # Absent)
                        <=> (unit.body.submissionState = "SUCCESS"))

\* A schema-valid FAILED event that holds a blockchainTxId was handled: the
\* PATCH carries the transaction id with the state FAILED.
C38_Witness ==
    /\ unit.fn = "listener_callback_twice"
    /\ validate_message(unit.body)
    /\ unit.body.submissionState = "FAILED"
    /\ unit.body.blockchainTxId = "tx"
    /\ Len(unit.first) = 1
    /\ unit.first[1].json.blockchainTxId = "tx"
    /\ unit.first[1].json.submissionState = "FAILED"

\* The title or the description of the data contains a success pattern, in
\* any letter case.
SuccessPatternIn(data) ==
    \E p \in 1..Len(success_patterns) :
        \/ Contains(lower_all(Get(data, "title", <<>>)), success_patterns[p])
        \/ Contains(lower_all(Get(data, "description", <<>>)),
                    success_patterns[p])

Characters(text) ==
    CASE text = "0x09e813c45eaa7f35e276f40e46584ec19258a00b0f40d7f452071bc45b342d8b" ->
           <<
             "0", "x", "0", "9", "e", "8", "1", "3", "c", "4",
             "5", "e", "a", "a", "7", "f", "3", "5", "e", "2",
             "7", "6", "f", "4", "0", "e", "4", "6", "5", "8",
             "4", "e", "c", "1", "9", "2", "5", "8", "a", "0",
             "0", "b", "0", "f", "4", "0", "d", "7", "f", "4",
             "5", "2", "0", "7", "1", "b", "c", "4", "5", "b",
             "3", "4", "2", "d", "8", "b">>
      [] text = "09e813c45eaa7f35e276f40e46584ec19258a00b0f40d7f452071bc45b342d8b" ->
           <<
             "0", "9", "e", "8", "1", "3", "c", "4", "5", "e",
             "a", "a", "7", "f", "3", "5", "e", "2", "7", "6",
             "f", "4", "0", "e", "4", "6", "5", "8", "4", "e",
             "c", "1", "9", "2", "5", "8", "a", "0", "0", "b",
             "0", "f", "4", "0", "d", "7", "f", "4", "5", "2",
             "0", "7", "1", "b", "c", "4", "5", "b", "3", "4",
             "2", "d", "8", "b">>
      [] text = "0x091c4881ec42975d6f9035b714a4f5884182fc450be8d07241569da1395a9ab6" ->
           <<
             "0", "x", "0", "9", "1", "c", "4", "8", "8", "1",
             "e", "c", "4", "2", "9", "7", "5", "d", "6", "f",
             "9", "0", "3", "5", "b", "7", "1", "4", "a", "4",
             "f", "5", "8", "8", "4", "1", "8", "2", "f", "c",
             "4", "5", "0", "b", "e", "8", "d", "0", "7", "2",
             "4", "1", "5", "6", "9", "d", "a", "1", "3", "9",
             "5", "a", "9", "a", "b", "6">>
      [] text = "091c4881ec42975d6f9035b714a4f5884182fc450be8d07241569da1395a9ab6" ->
           <<
             "0", "9", "1", "c", "4", "8", "8", "1", "e", "c",
             "4", "2", "9", "7", "5", "d", "6", "f", "9", "0",
             "3", "5", "b", "7", "1", "4", "a", "4", "f", "5",
             "8", "8", "4", "1", "8", "2", "f", "c", "4", "5",
             "0", "b", "e", "8", "d", "0", "7", "2", "4", "1",
             "5", "6", "9", "d", "a", "1", "3", "9", "5", "a",
             "9", "a", "b", "6">>
      [] text = "0x763cd63274f9bc583fdcf2a35c914f70f0b2720e67e9d52485e9fabf324b07fb" ->
           <<
             "0", "x", "7", "6", "3", "c", "d", "6", "3", "2",
             "7", "4", "f", "9", "b", "c", "5", "8", "3", "f",
             "d", "c", "f", "2", "a", "3", "5", "c", "9", "1",
             "4", "f", "7", "0", "f", "0", "b", "2", "7", "2",
             "0", "e", "6", "7", "e", "9", "d", "5", "2", "4",
             "8", "5", "e", "9", "f", "a", "b", "f", "3", "2",
             "4", "b", "0", "7", "f", "b">>
      [] text = "763cd63274f9bc583fdcf2a35c914f70f0b2720e67e9d52485e9fabf324b07fb" ->
           <<
             "7", "6", "3", "c", "d", "6", "3", "2", "7", "4",
             "f", "9", "b", "c", "5", "8", "3", "f", "d", "c",
             "f", "2", "a", "3", "5", "c", "9", "1", "4", "f",
             "7", "0", "f", "0", "b", "2", "7", "2", "0", "e",
             "6", "7", "e", "9", "d", "5", "2", "4", "8", "5",
             "e", "9", "f", "a", "b", "f", "3", "2", "4", "b",
             "0", "7", "f", "b">>
      [] text = "0x5d77cbca8e934a2539a7af22ef2caf0daaf186e3538f3849b587a189439bdeb0" ->
           <<
             "0", "x", "5", "d", "7", "7", "c", "b", "c", "a",
             "8", "e", "9", "3", "4", "a", "2", "5", "3", "9",
             "a", "7", "a", "f", "2", "2", "e", "f", "2", "c",
             "a", "f", "0", "d", "a", "a", "f", "1", "8", "6",
             "e", "3", "5", "3", "8", "f", "3", "8", "4", "9",
             "b", "5", "8", "7", "a", "1", "8", "9", "4", "3",
             "9", "b", "d", "e", "b", "0">>
      [] text = "5d77cbca8e934a2539a7af22ef2caf0daaf186e3538f3849b587a189439bdeb0" ->
           <<
             "5", "d", "7", "7", "c", "b", "c", "a", "8", "e",
             "9", "3", "4", "a", "2", "5", "3", "9", "a", "7",
             "a", "f", "2", "2", "e", "f", "2", "c", "a", "f",
             "0", "d", "a", "a", "f", "1", "8", "6", "e", "3",
             "5", "3", "8", "f", "3", "8", "4", "9", "b", "5",
             "8", "7", "a", "1", "8", "9", "4", "3", "9", "b",
             "d", "e", "b", "0">>
      [] text = "0x63aadc15959a6112d24f6ab241491f31d1127dc16174e513e8d59b322e0e32d4" ->
           <<
             "0", "x", "6", "3", "a", "a", "d", "c", "1", "5",
             "9", "5", "9", "a", "6", "1", "1", "2", "d", "2",
             "4", "f", "6", "a", "b", "2", "4", "1", "4", "9",
             "1", "f", "3", "1", "d", "1", "1", "2", "7", "d",
             "c", "1", "6", "1", "7", "4", "e", "5", "1", "3",
             "e", "8", "d", "5", "9", "b", "3", "2", "2", "e",
             "0", "e", "3", "2", "d", "4">>
      [] text = "63aadc15959a6112d24f6ab241491f31d1127dc16174e513e8d59b322e0e32d4" ->
           <<
             "6", "3", "a", "a", "d", "c", "1", "5", "9", "5",
             "9", "a", "6", "1", "1", "2", "d", "2", "4", "f",
             "6", "a", "b", "2", "4", "1", "4", "9", "1", "f",
             "3", "1", "d", "1", "1", "2", "7", "d", "c", "1",
             "6", "1", "7", "4", "e", "5", "1", "3", "e", "8",
             "d", "5", "9", "b", "3", "2", "2", "e", "0", "e",
             "3", "2", "d", "4">>

HexDigits ==
    {"0", "1", "2", "3", "4", "5", "6", "7", "8", "9",
     "a", "b", "c", "d", "e", "f"}

====
